---- MODULE Spec2Model ----
(***************************************************************************)
(* Ink inventory backend: the movement ledger, goods receipt, picking,     *)
(* batch maintenance, document numbering, delivery notes, the alert checks *)
(* and item deletion, as a state machine over the rows of the batches,     *)
(* movements, items, delivery_notes and alerts tables.                     *)
(*                                                                         *)
(* Quantities are Numeric(12,3) in the source; here they are small         *)
(* integers (units of 0.001).  Identifiers are UUIDs in the source; here   *)
(* they are the ordinal of the row's creation, never reused.  A document   *)
(* number PREFIX-YYMMDD-NNN is the record of its prefix, day and counter.   *)
(*                                                                         *)
(* A request handler runs in one database transaction.  A handler that     *)
(* reads without a lock and later writes under the batch row lock          *)
(* (execute_pick, adjust_quantity) is split at that point, so that other   *)
(* transactions commit in between.  SELECT ... FOR UPDATE locks the row;   *)
(* a handler whose session already holds the batch object keeps the        *)
(* attributes it loaded, a session without it reads the row as last        *)
(* committed.                                                              *)
(***************************************************************************)
EXTENDS Integers, Sequences, FiniteSets, Bags, TLC

\* ---------------------------------------------------------------- bounds
MaxBatches == 2      \* batches ever received
MaxQty == 2          \* largest quantity of a request, and of a batch
MaxMovements == 3    \* movements ever written
MaxDay == 1          \* calendar days after the first
MaxNeeded == 5       \* largest quantity asked of suggest
MaxLines == 2        \* lines of a dispatch request
MaxAlerts == 12      \* rows of the alerts table
ReorderPoint == 2    \* reorder_point of an item
MinStock == 1        \* min_stock of an item
MaxCalls == 3        \* calls of the number generator in a row
MaxNotes == 2        \* delivery notes ever created
MaxDeliveryDay == 2  \* calendar days after the first, for delivery notes

ItemIds == {"ink"}
BatchIds == 1..MaxBatches
Days == 0..MaxDay
Requests == {"r1"}
\* Two dispatch requests served at the same time, each in its own session
\* and transaction.
Dispatchers == {"d1", "d2"}
MaxVersion == MaxMovements   \* cap of a batch's version counter

\* ------------------------------------------------------------ enumerations
\* models/batch.py BatchStatus
BatchStatus == {"ACTIVE", "SCRAP", "DEPLETED"}
\* models/movement.py MovementType
MovementType == {"RECEIPT", "DISPATCH", "ADJUSTMENT", "SCRAP", "TRANSFER"}

VARIABLES
    items,        \* ids of the rows of the items table
    batches,      \* batch id -> row of the batches table
    movements,    \* rows of the movements table, in order of insertion
    batchSeq,     \* number of batch rows ever inserted
    movementSeq,  \* number of movement rows ever inserted
    today,        \* date.today()
    requests,     \* in-flight execute_pick / adjust_quantity calls
    response,     \* outcome of the operation that ran last
    delivery_notes, \* rows of the delivery_notes table, in order of insertion
    alerts        \* rows of the alerts table, as a bag

vars == <<items, batches, movements, batchSeq, movementSeq, today, requests, response, delivery_notes, alerts>>

Idle == [pc |-> "idle", batch_id |-> 0, quantity |-> 0]

\* The movements of one batch, in order of insertion.
MovementsOf(ms, b) == SelectSeq(ms, LAMBDA m : m.batch_id = b)

Abs(x) == IF x < 0 THEN -x ELSE x

\* An optional argument or nullable column that is not set.
None == "none"

\* The number PREFIX-YYMMDD-NNN.
DocumentNumber(prefix, day, seq) == [prefix |-> prefix, day |-> day, seq |-> seq]

\* A batch number or reference number that is not set.
NoNumber == DocumentNumber(None, 0, 0)

\* ------------------------------------------------- InventoryService helpers

\* MovementRejected without the stock check of DISPATCH and SCRAP.
MovementRejectedNoStockCheck(movement_type, quantity, quantity_before) ==
    movement_type = "ADJUSTMENT" /\ quantity_before + quantity < 0

\* record_movement, lines 100-104 and 108-110: the two raises after the
\* batch has been found.
MovementRejected(movement_type, quantity, quantity_before) ==
    \/ movement_type \in {"DISPATCH", "SCRAP"} /\ quantity > quantity_before
    \/ movement_type = "ADJUSTMENT" /\ quantity_before + quantity < 0

\* QuantityAfter with the DISPATCH / SCRAP branch adding the quantity.
QuantityAfterDispatchAdds(movement_type, quantity, quantity_before) ==
    IF movement_type \in {"RECEIPT"} THEN quantity_before + quantity
    ELSE IF movement_type \in {"DISPATCH", "SCRAP"} THEN quantity_before + quantity
    ELSE IF movement_type = "ADJUSTMENT" THEN quantity_before + quantity
    ELSE quantity_before

\* record_movement, lines 97-112: the new quantity by movement type.
QuantityAfter(movement_type, quantity, quantity_before) ==
    IF movement_type \in {"RECEIPT"} THEN quantity_before + quantity
    ELSE IF movement_type \in {"DISPATCH", "SCRAP"} THEN quantity_before - quantity
    ELSE IF movement_type = "ADJUSTMENT" THEN quantity_before + quantity
    ELSE quantity_before

\* record_movement, lines 118-120: the depleted check.
StatusAfter(status, quantity_available) ==
    IF quantity_available <= 0 THEN "DEPLETED" ELSE status

\* NewMovement storing the signed quantity instead of its magnitude.
NewMovementSigned(id, batch_id, movement_type, quantity, quantity_before, quantity_after, reference_number) ==
    [id |-> id,
     batch_id |-> batch_id,
     movement_type |-> movement_type,
     quantity |-> quantity,
     quantity_before |-> quantity_before,
     quantity_after |-> quantity_after,
     reference_number |-> reference_number,
     timestamp |-> today]

\* record_movement, lines 123-133: the Movement row.
NewMovement(id, batch_id, movement_type, quantity, quantity_before, quantity_after, reference_number) ==
    [id |-> id,
     batch_id |-> batch_id,
     movement_type |-> movement_type,
     quantity |-> Abs(quantity),
     quantity_before |-> quantity_before,
     quantity_after |-> quantity_after,
     reference_number |-> reference_number,
     timestamp |-> today]

\* record_movement, lines 114-120: the update of the locked batch row.
UpdatedBatch(batch, quantity_after) ==
    [batch EXCEPT !.quantity_available = quantity_after,
                  !.version = @ + 1,
                  !.status = StatusAfter(@, quantity_after)]

\* record_movement writing the batch row before the checks that raise.
record_movement_early_write(bs, ms, id, batch_id, movement_type, quantity, reference_number) ==
    IF batch_id \notin DOMAIN bs
    THEN [ok |-> FALSE, batches |-> bs, movements |-> ms]
    ELSE LET batch == bs[batch_id]
             quantity_before == batch.quantity_available
             quantity_after ==
                 QuantityAfter(movement_type, quantity, quantity_before)
         IN  IF MovementRejected(movement_type, quantity, quantity_before)
             THEN [ok |-> FALSE,
                   batches |-> [bs EXCEPT ![batch_id].version = @ + 1],
                   movements |-> ms]
             ELSE [ok |-> TRUE,
                   batches |-> [bs EXCEPT ![batch_id] =
                                    UpdatedBatch(batch, quantity_after)],
                   movements |-> Append(ms,
                       NewMovement(id, batch_id, movement_type, quantity,
                                   quantity_before, quantity_after,
                                   reference_number))]

\* InventoryService.record_movement on tables bs, ms: the tables after the
\* call and whether it returned a Movement (ok) or raised ValueError.
record_movement(bs, ms, id, batch_id, movement_type, quantity, reference_number) ==
    IF batch_id \notin DOMAIN bs
    THEN [ok |-> FALSE, batches |-> bs, movements |-> ms]
    ELSE LET batch == bs[batch_id]
             quantity_before == batch.quantity_available
         IN  IF MovementRejected(movement_type, quantity, quantity_before)
             THEN [ok |-> FALSE, batches |-> bs, movements |-> ms]
             ELSE LET quantity_after ==
                          QuantityAfter(movement_type, quantity, quantity_before)
                  IN  [ok |-> TRUE,
                       batches |-> [bs EXCEPT ![batch_id] =
                                        UpdatedBatch(batch, quantity_after)],
                       movements |-> Append(ms,
                           NewMovement(id, batch_id, movement_type, quantity,
                                       quantity_before, quantity_after,
                                       reference_number))]

\* db.flush() (line 135) for a batch object that the session loaded as
\* `loaded` and the call changed to `object`: the UPDATE sets the columns
\* whose value changed and leaves the others of the row as they are.
Flushed(row, loaded, object) ==
    [row EXCEPT
        !.quantity_available =
            IF object.quantity_available # loaded.quantity_available
            THEN object.quantity_available ELSE @,
        !.version = IF object.version # loaded.version THEN object.version ELSE @,
        !.status = IF object.status # loaded.status THEN object.status ELSE @]

\* InventoryService.record_movement in a session that holds the batch
\* object already, loaded earlier in the request as `loaded`: the SELECT
\* ... FOR UPDATE (lines 87-90, no populate_existing) locks the row and
\* returns that object with the attributes it was loaded with, so
\* quantity_before and the checks are those of `loaded`, and the flush
\* writes the changed columns over the row as last committed.
record_movement_loaded(bs, ms, id, batch_id, loaded, movement_type, quantity, reference_number) ==
    IF batch_id \notin DOMAIN bs
    THEN [ok |-> FALSE, batches |-> bs, movements |-> ms]
    ELSE LET quantity_before == loaded.quantity_available
         IN  IF MovementRejected(movement_type, quantity, quantity_before)
             THEN [ok |-> FALSE, batches |-> bs, movements |-> ms]
             ELSE LET quantity_after ==
                          QuantityAfter(movement_type, quantity, quantity_before)
                  IN  [ok |-> TRUE,
                       batches |-> [bs EXCEPT ![batch_id] =
                                        Flushed(@, loaded,
                                                UpdatedBatch(loaded, quantity_after))],
                       movements |-> Append(ms,
                           NewMovement(id, batch_id, movement_type, quantity,
                                       quantity_before, quantity_after,
                                       reference_number))]

\* The quantities a caller passes to record_movement: positive, except for an
\* ADJUSTMENT, whose quantity is signed.
MovementQuantities(movement_type) ==
    IF movement_type = "ADJUSTMENT" THEN (-MaxQty)..MaxQty ELSE 1..MaxQty

\* The model keeps quantities within 0..MaxQty and the ledger within
\* MaxMovements rows.
WithinBounds(r) ==
    /\ Len(r.movements) <= MaxMovements
    /\ \A b \in DOMAIN r.batches :
           /\ r.batches[b].quantity_available <= MaxQty
           /\ r.batches[b].version <= MaxVersion

\* The end of a request that raised: the session is closed without a commit
\* and the transaction aborts, so the tables are those last committed.
rollback ==
    [ok |-> FALSE, batches |-> batches, movements |-> movements]

\* ------------------------------------------------------------------- Init
Init ==
    /\ items = ItemIds
    /\ batches = <<>>
    /\ movements = <<>>
    /\ batchSeq = 0
    /\ movementSeq = 0
    /\ today = 0
    /\ requests = [r \in Requests |-> Idle]
    /\ response = [op |-> "none", ok |-> TRUE]
    /\ delivery_notes = <<>>
    /\ alerts = EmptyBag

\* ---------------------------------------------------------------- actions

\* The result r of record_movement is committed (ok) or the transaction is
\* rolled back; op names the caller.
Commit(op, r) ==
    /\ WithinBounds(r)
    /\ batches' = r.batches
    /\ movements' = r.movements
    /\ movementSeq' = IF r.ok THEN movementSeq + 1 ELSE movementSeq
    /\ response' = [op |-> op, ok |-> r.ok]

\* InventoryService.record_movement called on its own, then committed.
RecordMovement(batch_id, movement_type, quantity) ==
    /\ Commit("record_movement",
              record_movement(batches, movements, movementSeq + 1,
                              batch_id, movement_type, quantity, NoNumber))
    /\ UNCHANGED <<items, batchSeq, today, requests, delivery_notes, alerts>>

\* ------------------------------------------------------------- receiving

\* The rows of the locations table: location id -> is_active.
Locations == [shelf |-> TRUE, closed |-> FALSE]

\* The location ids a request carries: none, an active row, an inactive row
\* and an id without a row.
RequestLocations == {None, "shelf", "closed", "gone"}

\* ReceivingService.validate_location: the row exists and is active.
validate_location(location_id) ==
    location_id \in DOMAIN Locations /\ Locations[location_id]

\* ReceivingService.validate_item: the row exists.
validate_item(item_id) == item_id \in items

\* The decimal digits of a natural number, most significant first.
RECURSIVE Digits(_)
Digits(n) == IF n < 10 THEN <<n>> ELSE Append(Digits(n \div 10), n % 10)

\* The format specification 0<width>d: the digits, padded with zeros on the
\* left to at least width characters.
RECURSIVE ZeroFill(_, _)
ZeroFill(digits, width) ==
    IF Len(digits) >= width THEN digits ELSE ZeroFill(<<0>> \o digits, width)

\* f"{next_seq:03d}" of generate_batch_number.
CounterWidth == 3
FormatCounter(n, width) == ZeroFill(Digits(n), width)

\* int(last.split("-")[-1]): the number a string of digits reads as.
RECURSIVE ParseCounter(_)
ParseCounter(digits) ==
    IF digits = <<>> THEN 0
    ELSE 10 * ParseCounter(SubSeq(digits, 1, Len(digits) - 1)) + digits[Len(digits)]

\* The order of two strings of digits: s sorts before t.
RECURSIVE StringLess(_, _)
StringLess(s, t) ==
    IF s = <<>> THEN t # <<>>
    ELSE IF t = <<>> THEN FALSE
    ELSE IF s[1] # t[1] THEN s[1] < t[1]
    ELSE StringLess(Tail(s), Tail(t))

\* func.max over a column of strings: the one that sorts last.
Max(S) == CHOOSE s \in S : \A t \in S : ~StringLess(s, t)

\* The counter of a number generated after the stored counters, each a
\* string of digits: one more than the string that sorts last, or 1 when
\* there is none.
NextCounter(counters) ==
    IF counters = {} THEN 1 ELSE ParseCounter(Max(counters)) + 1

\* ReceivingService.generate_batch_number on the batches table bs: the
\* numbers LIKE prefix-today-% are searched for their maximum.
generate_batch_number(bs, prefix) ==
    LET counters == {FormatCounter(bs[b].batch_number.seq, CounterWidth) :
                        b \in {c \in DOMAIN bs :
                                  /\ bs[c].batch_number.prefix = prefix
                                  /\ bs[c].batch_number.day = today}}
    IN  DocumentNumber(prefix, today, NextCounter(counters))

\* ReceivingService.generate_grn_number.
generate_grn_number(bs) == generate_batch_number(bs, "GRN")

\* The batch numbers a request supplies: none, or a number of today's GR
\* series typed in by the user.
RequestBatchNumbers == {NoNumber, DocumentNumber("GR", 0, 1)}

\* A row with this batch number is in the batches table bs.
BatchNumberExists(bs, batch_number) ==
    \E b \in DOMAIN bs : bs[b].batch_number = batch_number

\* receive_goods lines 125-136, receive_multiple lines 200-211: the Batch row.
NewBatch(item_id, quantity, expiration_date, batch_number, location_id) ==
    [item_id |-> item_id,
     batch_number |-> batch_number,
     quantity_received |-> quantity,
     quantity_available |-> quantity,
     receipt_date |-> today,
     expiration_date |-> expiration_date,
     location_id |-> location_id,
     status |-> "ACTIVE",
     notes |-> <<>>,
     version |-> 1]

\* ReceiptMovement without the GRN number as reference.
ReceiptMovementNoReference(id, batch_id, quantity, grn_number) ==
    [id |-> id,
     batch_id |-> batch_id,
     movement_type |-> "RECEIPT",
     quantity |-> quantity,
     quantity_before |-> 0,
     quantity_after |-> quantity,
     reference_number |-> NoNumber,
     timestamp |-> today]

\* receive_goods lines 142-152, receive_multiple lines 216-226: the RECEIPT
\* Movement row of a new batch.
ReceiptMovement(id, batch_id, quantity, grn_number) ==
    [id |-> id,
     batch_id |-> batch_id,
     movement_type |-> "RECEIPT",
     quantity |-> quantity,
     quantity_before |-> 0,
     quantity_after |-> quantity,
     reference_number |-> grn_number,
     timestamp |-> today]

\* ReceiptValid without the validation of the location.
ReceiptValidNoLocationCheck(item_id, quantity, expiration_date, batch_number, location_id) ==
    /\ validate_item(item_id)
    /\ ~(expiration_date < today)
    /\ ~(quantity <= 0)
    /\ batch_number # NoNumber => ~BatchNumberExists(batches, batch_number)

\* receive_goods lines 94-119: the item, location, expiration date, quantity
\* and batch number checks; each raises ValueError.
ReceiptValid(item_id, quantity, expiration_date, batch_number, location_id) ==
    /\ validate_item(item_id)
    /\ location_id # None => validate_location(location_id)
    /\ ~(expiration_date < today)
    /\ ~(quantity <= 0)
    /\ batch_number # NoNumber => ~BatchNumberExists(batches, batch_number)

\* receive_goods lines 94-119: the check that raises first, as the detail of
\* the 400 response.
ReceiptError(item_id, quantity, expiration_date, batch_number, location_id) ==
    IF ~validate_item(item_id) THEN "item not found"
    ELSE IF location_id # None /\ ~validate_location(location_id)
    THEN "location not found or inactive"
    ELSE IF expiration_date < today THEN "expiration date in the past"
    ELSE IF quantity <= 0 THEN "quantity not positive"
    ELSE "batch number exists"

\* The flush of a row whose number is stored already: the unique index on
\* the number raises IntegrityError, which no handler catches.
IntegrityError == "integrity error"

\* ReceivingService.receive_goods and the commit of receive_single_item; the
\* response carries the GRN number and the id of the batch.  A generated
\* batch number is inserted without a check that it is free.
ReceiveGoods(item_id, quantity, expiration_date, batch_number, location_id) ==
    /\ IF ReceiptValid(item_id, quantity, expiration_date, batch_number,
                       location_id)
       THEN LET number == IF batch_number = NoNumber
                          THEN generate_batch_number(batches, "GR")
                          ELSE batch_number
                grn_number == generate_grn_number(batches)
            IN  IF BatchNumberExists(batches, number)
                THEN /\ UNCHANGED <<batches, movements, batchSeq, movementSeq>>
                     /\ response' = [op |-> "receive_goods", ok |-> FALSE,
                                     detail |-> IntegrityError]
                ELSE /\ batchSeq < MaxBatches
                     /\ Len(movements) < MaxMovements
                     /\ batches' = batches @@
                            ((batchSeq + 1) :>
                                NewBatch(item_id, quantity, expiration_date,
                                         number, location_id))
                     /\ movements' = Append(movements,
                            ReceiptMovement(movementSeq + 1, batchSeq + 1,
                                            quantity, grn_number))
                     /\ batchSeq' = batchSeq + 1
                     /\ movementSeq' = movementSeq + 1
                     /\ response' = [op |-> "receive_goods", ok |-> TRUE,
                                     grn_number |-> grn_number,
                                     batch_id |-> batchSeq + 1]
       ELSE /\ UNCHANGED <<batches, movements, batchSeq, movementSeq>>
            /\ response' = [op |-> "receive_goods", ok |-> FALSE,
                            detail |-> ReceiptError(item_id, quantity,
                                          expiration_date, batch_number,
                                          location_id)]
    /\ UNCHANGED <<items, today, requests, delivery_notes, alerts>>

\* receive_multiple lines 181-191: the checks made on one row.
RowValid(receipt) ==
    /\ validate_item(receipt.item_id)
    /\ receipt.location_id # None => validate_location(receipt.location_id)
    /\ ~(receipt.expiration_date < today)

\* receive_multiple lines 180-230 from row i on, on the session's tables bs
\* and ms: each row is checked, numbered and inserted (the flush of a batch
\* number that exists violates the unique index); a row that raises leaves
\* the session with the inserts of the rows before it.
RECURSIVE receive_rows(_, _, _, _, _)
receive_rows(bs, ms, receipts, i, grn_number) ==
    IF i > Len(receipts)
    THEN [ok |-> TRUE, batches |-> bs, movements |-> ms]
    ELSE LET receipt == receipts[i]
             number == IF receipt.batch_number = NoNumber
                       THEN generate_batch_number(bs, "GR")
                       ELSE receipt.batch_number
         IN  IF ~RowValid(receipt) \/ BatchNumberExists(bs, number)
             THEN [ok |-> FALSE, batches |-> bs, movements |-> ms]
             ELSE receive_rows(
                      bs @@ ((batchSeq + i) :>
                                NewBatch(receipt.item_id, receipt.quantity,
                                         receipt.expiration_date, number,
                                         receipt.location_id)),
                      Append(ms, ReceiptMovement(movementSeq + i, batchSeq + i,
                                                 receipt.quantity, grn_number)),
                      receipts, i + 1, grn_number)

\* receive_multiple_outcome keeping the inserts made before the failing row.
receive_multiple_outcome_partial(r) == r

\* receive_multiple_items lines 124-177: db.commit() is reached only when the
\* service returned; a ValueError ends the request without it.
receive_multiple_outcome(r) == IF r.ok THEN r ELSE rollback

\* ReceivingService.receive_multiple and receive_multiple_items: one GRN
\* number for the request, one batch and one RECEIPT movement per row.
ReceiveMultiple(receipts) ==
    LET grn_number == generate_grn_number(batches)
        r == receive_multiple_outcome(
                 receive_rows(batches, movements, receipts, 1, grn_number))
    IN  /\ batchSeq + Len(receipts) <= MaxBatches
        /\ Len(movements) + Len(receipts) <= MaxMovements
        /\ batches' = r.batches
        /\ movements' = r.movements
        /\ batchSeq' = IF r.ok THEN batchSeq + Len(receipts) ELSE batchSeq
        /\ movementSeq' = IF r.ok THEN movementSeq + Len(receipts)
                          ELSE movementSeq
        /\ response' = IF r.ok
                       THEN [op |-> "receive_multiple", ok |-> TRUE,
                             grn_number |-> grn_number,
                             batches_created |-> Len(receipts)]
                       ELSE [op |-> "receive_multiple", ok |-> FALSE]
        /\ UNCHANGED <<items, today, requests, delivery_notes, alerts>>

\* The rows of a receive-multiple request (GoodsReceiptItem, quantity > 0).
ReceiptRows ==
    [item_id : ItemIds \cup {"unknown"}, quantity : 1..MaxQty,
     expiration_date : Days, batch_number : RequestBatchNumbers,
     location_id : RequestLocations]

\* The rows without a batch number and without a location.
PlainReceiptRows ==
    {receipt \in ReceiptRows :
        /\ receipt.item_id \in ItemIds
        /\ receipt.batch_number = NoNumber
        /\ receipt.location_id = None}

\* -------------------------------------------------------------- numbering

\* The batch numbers a request supplies where the counter is at its end:
\* none, or the last number of today's GR series that fits the format.
LastCounter == 10^CounterWidth - 1
NumberingBatchNumbers == {NoNumber, DocumentNumber("GR", 0, LastCounter)}

\* The prefixes the program passes to generate_batch_number.
Prefixes == {"GR", "GRN", "DSP"}

\* GET /receiving/generate-batch-number: the number is computed and returned,
\* nothing is stored.  The response lists the numbers returned to a caller by
\* its calls in a row for one prefix on one day.
GenerateBatchNumber(prefix) ==
    LET earlier == IF /\ response.op = "generate_batch_number"
                      /\ response.prefix = prefix
                      /\ response.day = today
                   THEN response.numbers ELSE <<>>
    IN  /\ Len(earlier) < MaxCalls
        /\ response' = [op |-> "generate_batch_number", ok |-> TRUE,
                        prefix |-> prefix, day |-> today,
                        numbers |-> Append(earlier,
                                        generate_batch_number(batches, prefix))]
        /\ UNCHANGED <<items, batches, movements, batchSeq, movementSeq, today, requests, delivery_notes, alerts>>

\* receive_goods lines 94-122 in a request that supplies no batch number: the
\* checks, then the batch number and the GRN number are generated from the
\* rows committed so far.
ReceiveGoodsGenerate(r, item_id, quantity, expiration_date, location_id) ==
    /\ requests[r].pc = "idle"
    /\ IF ReceiptValid(item_id, quantity, expiration_date, NoNumber, location_id)
       THEN /\ requests' = [requests EXCEPT ![r] =
                   [pc |-> "receive_generated", batch_id |-> 0,
                    quantity |-> quantity, item_id |-> item_id,
                    expiration_date |-> expiration_date,
                    location_id |-> location_id,
                    batch_number |-> generate_batch_number(batches, "GR"),
                    grn_number |-> generate_grn_number(batches)]]
            /\ UNCHANGED response
       ELSE /\ response' = [op |-> "receive_goods", ok |-> FALSE,
                            detail |-> ReceiptError(item_id, quantity,
                                          expiration_date, NoNumber,
                                          location_id)]
            /\ UNCHANGED requests
    /\ UNCHANGED <<items, batches, movements, batchSeq, movementSeq, today, delivery_notes, alerts>>

\* receive_goods lines 125-157 and the commit: the batch row is flushed under
\* the number generated earlier; the request ends with IntegrityError when
\* another transaction has stored that number meanwhile.
ReceiveGoodsFlush(r) ==
    /\ requests[r].pc = "receive_generated"
    /\ LET q == requests[r]
       IN  IF BatchNumberExists(batches, q.batch_number)
           THEN /\ UNCHANGED <<batches, movements, batchSeq, movementSeq>>
                /\ response' = [op |-> "receive_goods", ok |-> FALSE,
                                detail |-> IntegrityError]
           ELSE /\ batchSeq < MaxBatches
                /\ Len(movements) < MaxMovements
                /\ batches' = batches @@
                       ((batchSeq + 1) :>
                           NewBatch(q.item_id, q.quantity, q.expiration_date,
                                    q.batch_number, q.location_id))
                /\ movements' = Append(movements,
                       ReceiptMovement(movementSeq + 1, batchSeq + 1,
                                       q.quantity, q.grn_number))
                /\ batchSeq' = batchSeq + 1
                /\ movementSeq' = movementSeq + 1
                /\ response' = [op |-> "receive_goods", ok |-> TRUE,
                                grn_number |-> q.grn_number,
                                batch_id |-> batchSeq + 1]
    /\ requests' = [requests EXCEPT ![r] = Idle]
    /\ UNCHANGED <<items, today, delivery_notes, alerts>>

\* ------------------------------------------------------- adjust_quantity

\* adjust_quantity lines 148-156: the adjustment computed from the unlocked
\* read of the batch.
Adjustment(batch, new_quantity) == new_quantity - batch.quantity_available

\* InventoryService.adjust_quantity run without interruption, and committed.
AdjustQuantity(batch_id, new_quantity) ==
    /\ IF batch_id \in DOMAIN batches
       THEN Commit("adjust_quantity",
                   record_movement(batches, movements, movementSeq + 1,
                                   batch_id, "ADJUSTMENT",
                                   Adjustment(batches[batch_id], new_quantity),
                                   NoNumber))
       ELSE /\ response' = [op |-> "adjust_quantity", ok |-> FALSE]
            /\ UNCHANGED <<batches, movements, movementSeq>>
    /\ UNCHANGED <<items, batchSeq, today, requests, delivery_notes, alerts>>

\* adjust_quantity up to the call of record_movement; the request then waits
\* for the batch row lock.
AdjustQuantityRead(r, batch_id, new_quantity) ==
    /\ requests[r].pc = "idle"
    /\ IF batch_id \in DOMAIN batches
       THEN /\ requests' = [requests EXCEPT ![r] =
                   [pc |-> "adjust_read", batch_id |-> batch_id,
                    quantity |-> Adjustment(batches[batch_id], new_quantity),
                    loaded |-> batches[batch_id]]]
            /\ UNCHANGED response
       ELSE /\ response' = [op |-> "adjust_quantity", ok |-> FALSE]
            /\ UNCHANGED requests
    /\ UNCHANGED <<items, batches, movements, batchSeq, movementSeq, today, delivery_notes, alerts>>

\* adjust_quantity lines 158-164: record_movement with the adjustment; the
\* batch object read at lines 148-151 is still held by the caller.
AdjustQuantityRecord(r) ==
    /\ requests[r].pc = "adjust_read"
    /\ Commit("adjust_quantity",
              record_movement_loaded(batches, movements, movementSeq + 1,
                                     requests[r].batch_id, requests[r].loaded,
                                     "ADJUSTMENT", requests[r].quantity,
                                     NoNumber))
    /\ requests' = [requests EXCEPT ![r] = Idle]
    /\ UNCHANGED <<items, batchSeq, today, delivery_notes, alerts>>

\* ------------------------------------------------------------- picking

\* FEFOEngine.validate_picking lines 187-241: is_valid.
PickingValid(batch_id, quantity) ==
    /\ batch_id \in DOMAIN batches
    /\ ~(batches[batch_id].expiration_date < today)
    /\ ~(batches[batch_id].status # "ACTIVE")
    /\ ~(quantity > batches[batch_id].quantity_available)

\* execute_pick run without interruption: validation, record_movement
\* (DISPATCH) and the commit.
ExecutePick(batch_id, quantity) ==
    /\ IF PickingValid(batch_id, quantity)
       THEN Commit("execute_pick",
                   record_movement(batches, movements, movementSeq + 1,
                                   batch_id, "DISPATCH", quantity, NoNumber))
       ELSE /\ response' = [op |-> "execute_pick", ok |-> FALSE]
            /\ UNCHANGED <<batches, movements, movementSeq>>
    /\ UNCHANGED <<items, batchSeq, today, requests, delivery_notes, alerts>>

\* execute_pick lines 132-148: validation, rejected with 400 when invalid;
\* the request then waits for the batch row lock.
ExecutePickValidate(r, batch_id, quantity) ==
    /\ requests[r].pc = "idle"
    /\ IF PickingValid(batch_id, quantity)
       THEN /\ requests' = [requests EXCEPT ![r] =
                   [pc |-> "pick_validated", batch_id |-> batch_id,
                    quantity |-> quantity, loaded |-> batches[batch_id]]]
            /\ UNCHANGED response
       ELSE /\ response' = [op |-> "execute_pick", ok |-> FALSE]
            /\ UNCHANGED requests
    /\ UNCHANGED <<items, batches, movements, batchSeq, movementSeq, today, delivery_notes, alerts>>

\* execute_pick lines 150-175: record_movement(DISPATCH) and the commit.
\* validate_picking loaded the batch with its item, whose batches hold the
\* batch in turn; the session keeps the object until the garbage collector
\* frees that cycle, so record_movement finds the object as loaded (held)
\* or loads the locked row anew.
ExecutePickRecord(r) ==
    /\ requests[r].pc = "pick_validated"
    /\ \E held \in BOOLEAN :
           Commit("execute_pick",
                  IF held
                  THEN record_movement_loaded(batches, movements, movementSeq + 1,
                                              requests[r].batch_id,
                                              requests[r].loaded, "DISPATCH",
                                              requests[r].quantity, NoNumber)
                  ELSE record_movement(batches, movements, movementSeq + 1,
                                       requests[r].batch_id, "DISPATCH",
                                       requests[r].quantity, NoNumber))
    /\ requests' = [requests EXCEPT ![r] = Idle]
    /\ UNCHANGED <<items, batchSeq, today, delivery_notes, alerts>>

\* ------------------------------------------------------------- dispatch

\* create_dispatch lines 222-239 from line i of the request on, on the
\* session's tables bs and ms: record_movement(DISPATCH) line by line; a call
\* that raises leaves the session with the writes of the lines before it.
RECURSIVE record_lines(_, _, _, _, _)
record_lines(bs, ms, lines, i, reference_number) ==
    IF i > Len(lines)
    THEN [ok |-> TRUE, batches |-> bs, movements |-> ms]
    ELSE LET r == record_movement(bs, ms, movementSeq + i, lines[i].batch_id,
                                  "DISPATCH", lines[i].quantity,
                                  reference_number)
         IN  IF r.ok
             THEN record_lines(r.batches, r.movements, lines, i + 1,
                               reference_number)
             ELSE r

\* create_dispatch_outcome keeping the writes made before the failing line.
create_dispatch_outcome_partial(r) == r

\* create_dispatch lines 222-255: db.commit() is reached only after every
\* line has been recorded; a ValueError ends the request without it.
create_dispatch_outcome(r) == IF r.ok THEN r ELSE rollback

\* create_dispatch: every line is validated, the DSP reference is generated,
\* then every line is recorded and the transaction committed.  stage tells
\* where a rejected request stopped.
CreateDispatch(lines) ==
    /\ IF \A i \in DOMAIN lines :
              PickingValid(lines[i].batch_id, lines[i].quantity)
       THEN LET ref_number == generate_batch_number(batches, "DSP")
                r == create_dispatch_outcome(
                         record_lines(batches, movements, lines, 1, ref_number))
            IN  /\ WithinBounds(r)
                /\ batches' = r.batches
                /\ movements' = r.movements
                /\ movementSeq' = IF r.ok THEN movementSeq + Len(lines)
                                  ELSE movementSeq
                /\ response' = [op |-> "create_dispatch", ok |-> r.ok,
                                stage |-> "record",
                                reference_number |-> ref_number]
       ELSE /\ UNCHANGED <<batches, movements, movementSeq>>
            /\ response' = [op |-> "create_dispatch", ok |-> FALSE,
                            stage |-> "validate",
                            reference_number |-> NoNumber]
    /\ UNCHANGED <<items, batchSeq, today, requests, delivery_notes, alerts>>

\* The items of a dispatch request (DispatchItem, quantity > 0): one or two
\* lines.
DispatchRequests ==
    UNION {[1..n -> [batch_id : BatchIds, quantity : 1..MaxQty]] :
              n \in 1..MaxLines}

\* Rows of the movements table in the model of concurrent dispatches: two
\* receipts and the lines of two dispatches.
MaxDispatchMovements == 2 + 2 * MaxLines

\* The batch rows a dispatch in flight has locked: record_movement's
\* SELECT ... FOR UPDATE of the lines recorded so far; the locks are held
\* until the transaction ends.
LocksHeld(d) ==
    IF requests[d].pc = "dispatching"
    THEN {requests[d].lines[k].batch_id : k \in 1..(requests[d].next - 1)}
    ELSE {}

\* The movements the dispatches in flight other than d have yet to write.
InFlightLines(d) ==
    LET e == CHOOSE x \in Dispatchers : x # d
    IN  IF requests[e].pc = "dispatching" THEN Len(requests[e].lines) ELSE 0

\* Dispatch d is at a line whose batch row is locked by dispatch e.
WaitsFor(d, e) ==
    /\ d # e
    /\ requests[d].pc = "dispatching"
    /\ requests[d].next <= Len(requests[d].lines)
    /\ requests[d].lines[requests[d].next].batch_id \in LocksHeld(e)

\* create_dispatch lines 192-216: every line is validated and the DSP
\* reference generated; the batches are now objects of the session.
CreateDispatchValidate(d, lines) ==
    /\ requests[d].pc = "idle"
    /\ Len(movements) + Len(lines) + InFlightLines(d) <= MaxDispatchMovements
    /\ IF \A i \in DOMAIN lines :
              PickingValid(lines[i].batch_id, lines[i].quantity)
       THEN LET loaded == [b \in {lines[i].batch_id : i \in DOMAIN lines} |->
                              batches[b]]
            IN  /\ requests' = [requests EXCEPT ![d] =
                       [pc |-> "dispatching", lines |-> lines, next |-> 1,
                        loaded |-> loaded, objects |-> loaded,
                        pending |-> <<>>,
                        reference_number |->
                            generate_batch_number(batches, "DSP")]]
                /\ UNCHANGED response
       ELSE /\ response' = [op |-> "create_dispatch", ok |-> FALSE,
                            stage |-> "validate",
                            reference_number |-> NoNumber]
            /\ UNCHANGED requests
    /\ UNCHANGED <<items, batches, movements, batchSeq, movementSeq, today, delivery_notes, alerts>>

\* create_dispatch lines 222-231, one turn of the loop: record_movement of
\* the next line, in the order of the request.  Its locking SELECT waits
\* while another transaction holds the row.  The session still has the
\* object as loaded by the validation (held), or, for a row not yet written
\* by this request, loads the locked row anew.  A ValueError ends the
\* request without a commit.
CreateDispatchRecord(d) ==
    /\ requests[d].pc = "dispatching"
    /\ requests[d].next <= Len(requests[d].lines)
    /\ LET line == requests[d].lines[requests[d].next]
           b == line.batch_id
       IN  /\ \A e \in Dispatchers \ {d} : b \notin LocksHeld(e)
           /\ \E held \in BOOLEAN :
                  LET kept == held \/ b \in LocksHeld(d)
                      loaded == IF kept THEN requests[d].loaded[b] ELSE batches[b]
                      object == IF kept THEN requests[d].objects[b] ELSE batches[b]
                      quantity_before == object.quantity_available
                      quantity_after == quantity_before - line.quantity
                  IN  IF MovementRejected("DISPATCH", line.quantity, quantity_before)
                      THEN /\ requests' = [requests EXCEPT ![d] = Idle]
                           /\ response' = [op |-> "create_dispatch", ok |-> FALSE,
                                           stage |-> "record",
                                           reference_number |->
                                               requests[d].reference_number]
                      ELSE /\ requests' = [requests EXCEPT
                                  ![d].next = @ + 1,
                                  ![d].loaded[b] = loaded,
                                  ![d].objects[b] = UpdatedBatch(object, quantity_after),
                                  ![d].pending = Append(@,
                                      NewMovement(0, b, "DISPATCH", line.quantity,
                                                  quantity_before, quantity_after,
                                                  requests[d].reference_number))]
                           /\ UNCHANGED response
    /\ UNCHANGED <<items, batches, movements, batchSeq, movementSeq, today, delivery_notes, alerts>>

\* create_dispatch lines 241-249: db.commit() after the last line; the
\* flushed updates and the movements become visible and the locks are
\* released.
CreateDispatchCommit(d) ==
    /\ requests[d].pc = "dispatching"
    /\ requests[d].next > Len(requests[d].lines)
    /\ batches' = [b \in DOMAIN batches |->
                      IF b \in LocksHeld(d)
                      THEN Flushed(batches[b], requests[d].loaded[b],
                                   requests[d].objects[b])
                      ELSE batches[b]]
    /\ movements' = movements \o
                       [k \in 1..Len(requests[d].pending) |->
                           [requests[d].pending[k] EXCEPT !.id = movementSeq + k]]
    /\ movementSeq' = movementSeq + Len(requests[d].pending)
    /\ response' = [op |-> "create_dispatch", ok |-> TRUE, stage |-> "record",
                    reference_number |-> requests[d].reference_number]
    /\ requests' = [requests EXCEPT ![d] = Idle]
    /\ UNCHANGED <<items, batchSeq, today, delivery_notes, alerts>>

\* Two dispatches each wait for a row the other has locked: the database
\* ends the wait by aborting one of the two transactions, whose request
\* fails without a commit.
DeadlockAbort(d) ==
    /\ \E e \in Dispatchers : WaitsFor(d, e) /\ WaitsFor(e, d)
    /\ requests' = [requests EXCEPT ![d] = Idle]
    /\ response' = [op |-> "create_dispatch", ok |-> FALSE, stage |-> "deadlock",
                    reference_number |-> requests[d].reference_number]
    /\ UNCHANGED <<items, batches, movements, batchSeq, movementSeq, today, delivery_notes, alerts>>

\* ------------------------------------------------------------ FEFO engine

CRITICAL_THRESHOLD == 30
WARNING_THRESHOLD == 60
CAUTION_THRESHOLD == 90

\* FEFOEngine._get_warning_level.
get_warning_level(days_until_expiration) ==
    IF days_until_expiration <= 0 THEN "expired"
    ELSE IF days_until_expiration <= CRITICAL_THRESHOLD THEN "critical"
    ELSE IF days_until_expiration <= WARNING_THRESHOLD THEN "warning"
    ELSE IF days_until_expiration <= CAUTION_THRESHOLD THEN "caution"
    ELSE "safe"

\* AvailableBatches without the status filter.
AvailableBatchesAnyStatus(item_id) ==
    {b \in DOMAIN batches :
        /\ batches[b].item_id = item_id
        /\ batches[b].quantity_available > 0
        /\ batches[b].expiration_date >= today}

\* get_available_batches lines 96-108, exclude_expired = True: the rows the
\* query selects.
AvailableBatches(item_id) ==
    {b \in DOMAIN batches :
        /\ batches[b].item_id = item_id
        /\ batches[b].status = "ACTIVE"
        /\ batches[b].quantity_available > 0
        /\ batches[b].expiration_date >= today}

\* The arrangements of the set S in a sequence.
Arrangements(S) ==
    {o \in [1..Cardinality(S) -> S] :
        \A i, j \in 1..Cardinality(S) : i # j => o[i] # o[j]}

\* ExpirationOrders without the ORDER BY clause.
ExpirationOrdersUnsorted(S) == Arrangements(S)

\* ORDER BY expiration_date ASC over the rows S: the sequences the database
\* may return.  The clause names no further key, so rows with the same
\* expiration date come in any order.
ExpirationOrders(S) ==
    {o \in Arrangements(S) :
        \A i, j \in 1..Cardinality(S) :
            i < j => batches[o[i]].expiration_date <= batches[o[j]].expiration_date}

Min(x, y) == IF x <= y THEN x ELSE y

\* BatchSuggestion, lines 138-154.
Suggestion(batch_id, pick_quantity) ==
    [batch_id |-> batch_id,
     batch_number |-> batches[batch_id].batch_number,
     quantity_available |-> batches[batch_id].quantity_available,
     expiration_date |-> batches[batch_id].expiration_date,
     days_until_expiration |-> batches[batch_id].expiration_date - today,
     suggested_quantity |-> pick_quantity,
     warning_level |->
         get_warning_level(batches[batch_id].expiration_date - today)]

\* suggest_from taking the whole of every batch it reaches.
RECURSIVE suggest_from_whole_batches(_, _)
suggest_from_whole_batches(order, remaining_quantity) ==
    IF order = <<>> \/ remaining_quantity <= 0 THEN <<>>
    ELSE LET pick_quantity == batches[Head(order)].quantity_available
         IN  <<Suggestion(Head(order), pick_quantity)>> \o
             suggest_from_whole_batches(Tail(order),
                                        remaining_quantity - pick_quantity)

\* suggest_batches_for_picking lines 130-157: the walk over the ordered
\* batches.
RECURSIVE suggest_from(_, _)
suggest_from(order, remaining_quantity) ==
    IF order = <<>> \/ remaining_quantity <= 0 THEN <<>>
    ELSE LET pick_quantity ==
                 Min(batches[Head(order)].quantity_available, remaining_quantity)
         IN  <<Suggestion(Head(order), pick_quantity)>> \o
             suggest_from(Tail(order), remaining_quantity - pick_quantity)

\* sum(b.quantity_available for b in batches) over the rows S.
RECURSIVE TotalQuantity(_)
TotalQuantity(S) ==
    IF S = {} THEN 0
    ELSE LET b == CHOOSE c \in S : TRUE
         IN  batches[b].quantity_available + TotalQuantity(S \ {b})

\* FEFOEngine.get_total_available.
get_total_available(item_id) == TotalQuantity(AvailableBatches(item_id))

\* FEFOEngine.can_fulfill.
can_fulfill(item_id, quantity_needed) ==
    get_total_available(item_id) >= quantity_needed

\* FEFOEngine.suggest_batches_for_picking with the default settings; the
\* response carries the list it returns.
SuggestBatchesForPicking(item_id, quantity_needed) ==
    /\ \E order \in ExpirationOrders(AvailableBatches(item_id)) :
           response' = [op |-> "suggest", ok |-> TRUE,
                        item_id |-> item_id,
                        quantity_needed |-> quantity_needed,
                        suggestions |-> suggest_from(order, quantity_needed)]
    /\ UNCHANGED <<items, batches, movements, batchSeq, movementSeq, today,
                   requests, delivery_notes, alerts>>

\* validate_picking lines 244-256: the rows of the query for earlier
\* expiring batches.
EarlierBatches(batch_id) ==
    {b \in DOMAIN batches :
        /\ batches[b].item_id = batches[batch_id].item_id
        /\ batches[b].status = "ACTIVE"
        /\ batches[b].quantity_available > 0
        /\ batches[b].expiration_date < batches[batch_id].expiration_date
        /\ batches[b].expiration_date >= today
        /\ b # batch_id}

\* A line of the errors or warnings list of a validation.
Message(kind, batch_number, expiration_date, days) ==
    [kind |-> kind, batch_number |-> batch_number,
     expiration_date |-> expiration_date, days |-> days]

\* PickingWarnings without the warning of an earlier expiring batch.
PickingWarningsNoFefo(batch_id, earlier) ==
    LET batch == batches[batch_id]
        days_until == batch.expiration_date - today
        warning_level == get_warning_level(days_until)
    IN  IF warning_level \in {"critical", "warning"}
        THEN <<Message(warning_level, batch.batch_number,
                       batch.expiration_date, days_until)>>
        ELSE <<>>

\* validate_picking lines 258-270: the warnings of a valid pick; earlier is
\* the result of the query for earlier expiring batches.
PickingWarnings(batch_id, earlier) ==
    LET batch == batches[batch_id]
        days_until == batch.expiration_date - today
        warning_level == get_warning_level(days_until)
    IN  (IF earlier # <<>>
         THEN <<Message("fefo", batches[earlier[1]].batch_number,
                        batches[earlier[1]].expiration_date, 0)>>
         ELSE <<>>)
        \o
        (IF warning_level \in {"critical", "warning"}
         THEN <<Message(warning_level, batch.batch_number,
                        batch.expiration_date, days_until)>>
         ELSE <<>>)

\* validate_picking accepting a batch whatever its status.
validate_picking_any_status(batch_id, quantity, earlier) ==
    IF batch_id \notin DOMAIN batches
    THEN [is_valid |-> FALSE,
          errors |-> <<Message("not_found", NoNumber, 0, 0)>>,
          warnings |-> <<>>]
    ELSE LET batch == batches[batch_id]
         IN  IF batch.expiration_date < today
             THEN [is_valid |-> FALSE,
                   errors |-> <<Message("expired", batch.batch_number,
                                        batch.expiration_date, 0)>>,
                   warnings |-> <<>>]
             ELSE IF quantity > batch.quantity_available
             THEN [is_valid |-> FALSE,
                   errors |-> <<Message("insufficient", batch.batch_number,
                                        batch.expiration_date, 0)>>,
                   warnings |-> <<>>]
             ELSE [is_valid |-> TRUE,
                   errors |-> <<>>,
                   warnings |-> PickingWarnings(batch_id, earlier)]

\* FEFOEngine.validate_picking: the PickingValidation it returns; earlier is
\* the result of the query for earlier expiring batches.
validate_picking(batch_id, quantity, earlier) ==
    IF batch_id \notin DOMAIN batches
    THEN [is_valid |-> FALSE,
          errors |-> <<Message("not_found", NoNumber, 0, 0)>>,
          warnings |-> <<>>]
    ELSE LET batch == batches[batch_id]
         IN  IF batch.expiration_date < today
             THEN [is_valid |-> FALSE,
                   errors |-> <<Message("expired", batch.batch_number,
                                        batch.expiration_date, 0)>>,
                   warnings |-> <<>>]
             ELSE IF batch.status # "ACTIVE"
             THEN [is_valid |-> FALSE,
                   errors |-> <<Message("inactive", batch.batch_number,
                                        batch.expiration_date, 0)>>,
                   warnings |-> <<>>]
             ELSE IF quantity > batch.quantity_available
             THEN [is_valid |-> FALSE,
                   errors |-> <<Message("insufficient", batch.batch_number,
                                        batch.expiration_date, 0)>>,
                   warnings |-> <<>>]
             ELSE [is_valid |-> TRUE,
                   errors |-> <<>>,
                   warnings |-> PickingWarnings(batch_id, earlier)]

\* The validate-pick request: FEFOEngine.validate_picking, answered with 400
\* when the validation is not valid.
ValidatePicking(batch_id, quantity) ==
    /\ \E earlier \in ExpirationOrders(
                         IF batch_id \in DOMAIN batches
                         THEN EarlierBatches(batch_id) ELSE {}) :
           LET validation == validate_picking(batch_id, quantity, earlier)
           IN  response' = [op |-> "validate", ok |-> validation.is_valid,
                            batch_id |-> batch_id, quantity |-> quantity,
                            errors |-> validation.errors,
                            warnings |-> validation.warnings]
    /\ UNCHANGED <<items, batches, movements, batchSeq, movementSeq, today,
                   requests, delivery_notes, alerts>>

\* ---------------------------------------------------- batch maintenance

\* mark_batch_as_scrap: 404 for an unknown batch, 400 for a batch that is
\* SCRAP already, otherwise the status is set and committed.
MarkBatchAsScrap(batch_id) ==
    /\ IF batch_id \in DOMAIN batches /\ batches[batch_id].status # "SCRAP"
       THEN /\ batches' = [batches EXCEPT ![batch_id].status = "SCRAP"]
            /\ response' = [op |-> "mark_scrap", ok |-> TRUE]
       ELSE /\ UNCHANGED batches
            /\ response' = [op |-> "mark_scrap", ok |-> FALSE]
    /\ UNCHANGED <<items, movements, batchSeq, movementSeq, today, requests, delivery_notes, alerts>>

\* update_batch lines 235-238: the fields of BatchUpdate that were sent are
\* assigned; "unset" is a request without the status field.
UpdatedStatus(status, sent) == IF sent = "unset" THEN status ELSE sent

\* update_batch: 404 for an unknown batch, otherwise the sent fields are
\* assigned, the version is incremented and the row committed.
UpdateBatch(batch_id, sent) ==
    /\ IF batch_id \in DOMAIN batches
       THEN /\ batches[batch_id].version < MaxVersion
            /\ batches' = [batches EXCEPT
                   ![batch_id].status = UpdatedStatus(@, sent),
                   ![batch_id].version = @ + 1]
            /\ response' = [op |-> "update_batch", ok |-> TRUE]
       ELSE /\ UNCHANGED batches
            /\ response' = [op |-> "update_batch", ok |-> FALSE]
    /\ UNCHANGED <<items, movements, batchSeq, movementSeq, today, requests, delivery_notes, alerts>>

\* -------------------------------------------------------- alert checks

\* models/alert.py AlertType, AlertSeverity
AlertType == {"EXPIRATION_WARNING", "EXPIRATION_CRITICAL", "EXPIRED", "LOW_STOCK", "DEAD_STOCK", "REORDER_POINT"}
AlertSeverity == {"INFO", "WARNING", "CRITICAL"}

\* core/config.py: days before expiration of the four alert bands, and the
\* days without movement that make stock dead.
alert_threshold_120 == 120
alert_threshold_90 == 90
alert_threshold_60 == 60
alert_threshold_30 == 30
dead_stock_days == 180

\* The batch_id of an alert about an item.
NoBatch == 0

\* AlertService.create_alert: the Alert row; created_at is the insertion time.
NewAlert(alert_type, severity, batch_id, item_id) ==
    [alert_type |-> alert_type,
     severity |-> severity,
     batch_id |-> batch_id,
     item_id |-> item_id,
     created_at |-> today]

\* The number of rows of the alerts table al that satisfy Matches.
CountAlerts(al, Matches(_)) ==
    LET S == {a \in BagToSet(al) : Matches(a)}
    IN  BagCardinality([a \in S |-> al[a]])

\* check_expiring_batches lines 115-120: the bands, in the order of the loop.
thresholds ==
    <<[days |-> alert_threshold_30, severity |-> "CRITICAL"],
      [days |-> alert_threshold_60, severity |-> "WARNING"],
      [days |-> alert_threshold_90, severity |-> "WARNING"],
      [days |-> alert_threshold_120, severity |-> "INFO"]>>

\* check_expiring_batches lines 127-135: the ACTIVE batches that expire after
\* today and within the band.
ExpiringWithin(bs, days) ==
    {b \in DOMAIN bs :
        /\ bs[b].status = "ACTIVE"
        /\ bs[b].expiration_date <= today + days
        /\ bs[b].expiration_date > today}

\* check_expiring_batches lines 142-152: the query for an alert of this batch
\* and severity created today; it looks for type EXPIRATION_WARNING only.
ExpiringExisting(al, batch_id, severity) ==
    CountAlerts(al, LAMBDA a :
        /\ a.batch_id = batch_id
        /\ a.alert_type = "EXPIRATION_WARNING"
        /\ a.severity = severity
        /\ a.created_at = today) > 0

\* check_expiring_batches lines 154-158: the type of the new alert.
ExpiringAlertType(days_left) ==
    IF days_left <= 30 THEN "EXPIRATION_CRITICAL" ELSE "EXPIRATION_WARNING"

\* check_expiring_batches lines 122-172: the bands from the i-th on, run on
\* the batches bs and the alerts al; created counts the alerts added.
RECURSIVE expiring_from(_, _, _)
expiring_from(bs, al, i) ==
    IF i > Len(thresholds) THEN [alerts |-> al, created |-> 0]
    ELSE LET band == thresholds[i]
             fresh == {b \in ExpiringWithin(bs, band.days) :
                          ~ExpiringExisting(al, b, band.severity)}
             added == {NewAlert(ExpiringAlertType(bs[b].expiration_date - today),
                                band.severity, b, bs[b].item_id) : b \in fresh}
             rest == expiring_from(bs, al (+) SetToBag(added), i + 1)
         IN  [alerts |-> rest.alerts,
              created |-> Cardinality(fresh) + rest.created]

\* AlertService.check_expiring_batches.
check_expiring_batches(bs, al) == expiring_from(bs, al, 1)

\* scalar_one_or_none() raises MultipleResultsFound when the query returns
\* more than one row.
MultipleResultsFound == "multiple results found"

\* check_expiring_batches line 151: the existing-alert query of a band finds
\* two alerts or more for a batch of the band.  A run adds an alert only
\* where the query found none, so the rows that make it raise are there
\* when the run starts.
ExpiringRaises(bs, al) ==
    \E i \in DOMAIN thresholds : \E b \in ExpiringWithin(bs, thresholds[i].days) :
        CountAlerts(al, LAMBDA a :
            /\ a.batch_id = b
            /\ a.alert_type = "EXPIRATION_WARNING"
            /\ a.severity = thresholds[i].severity
            /\ a.created_at = today) > 1

\* check_expired_batches lines 184-192: the ACTIVE batches past expiration.
ExpiredActive ==
    {b \in DOMAIN batches :
        batches[b].status = "ACTIVE" /\ batches[b].expiration_date < today}

\* check_expired_batches line 197: the line appended to the notes of a batch.
AutoScrapNote == [text |-> "auto-scrapped: expired", day |-> today]

\* check_expired_batches marking no batch.
check_expired_batches_alert_only(al) ==
    [batches |-> batches,
     alerts |-> al (+) SetToBag({NewAlert("EXPIRED", "CRITICAL", b,
                                          batches[b].item_id) :
                                    b \in ExpiredActive}),
     created |-> Cardinality(ExpiredActive)]

\* AlertService.check_expired_batches on the batches table and the alerts al:
\* each ACTIVE batch past expiration is marked SCRAP, gets a note and an
\* EXPIRED / CRITICAL alert.
check_expired_batches(al) ==
    [batches |-> [b \in DOMAIN batches |->
                     IF b \in ExpiredActive
                     THEN [batches[b] EXCEPT !.status = "SCRAP",
                                             !.notes = Append(@, AutoScrapNote)]
                     ELSE batches[b]],
     alerts |-> al (+) SetToBag({NewAlert("EXPIRED", "CRITICAL", b,
                                          batches[b].item_id) :
                                    b \in ExpiredActive}),
     created |-> Cardinality(ExpiredActive)]

\* check_expired_batches committed on its own.
CheckExpiredBatches ==
    LET r == check_expired_batches(alerts)
    IN  /\ BagCardinality(r.alerts) <= MaxAlerts
        /\ batches' = r.batches
        /\ alerts' = r.alerts
        /\ response' = [op |-> "check_expired", ok |-> TRUE]
        /\ UNCHANGED <<items, movements, batchSeq, movementSeq, today, requests, delivery_notes>>

\* check_expiring_batches committed on its own.
CheckExpiringBatches ==
    LET r == check_expiring_batches(batches, alerts)
    IN  IF ExpiringRaises(batches, alerts)
        THEN /\ response' = [op |-> "check_expiring", ok |-> FALSE,
                             detail |-> MultipleResultsFound]
             /\ UNCHANGED <<items, batches, movements, batchSeq, movementSeq, today, requests, delivery_notes, alerts>>
        ELSE /\ BagCardinality(r.alerts) <= MaxAlerts
             /\ alerts' = r.alerts
             /\ response' = [op |-> "check_expiring", ok |-> TRUE,
                             expiring_alerts |-> r.created]
             /\ UNCHANGED <<items, batches, movements, batchSeq, movementSeq, today, requests, delivery_notes>>

\* models/item.py: reorder_point and min_stock of the rows of the items table.
ItemRow(item_id) == [reorder_point |-> ReorderPoint, min_stock |-> MinStock]

\* AvailableStock counting the expired batches as well.
AvailableStockWithExpired(bs, item_id) ==
    TotalQuantity({b \in DOMAIN bs :
                      /\ bs[b].item_id = item_id
                      /\ bs[b].status = "ACTIVE"})

\* check_low_stock lines 232-236: the stock of an item in its ACTIVE batches
\* of bs that have not expired.
AvailableStock(bs, item_id) ==
    TotalQuantity({b \in DOMAIN bs :
                      /\ bs[b].item_id = item_id
                      /\ bs[b].status = "ACTIVE"
                      /\ bs[b].expiration_date >= today})

\* check_low_stock lines 238-250: the items below their reorder point that
\* have no LOW_STOCK alert created today.
LowStockItems(bs, al) ==
    {i \in items :
        /\ AvailableStock(bs, i) < ItemRow(i).reorder_point
        /\ CountAlerts(al, LAMBDA a : /\ a.item_id = i
                                      /\ a.alert_type = "LOW_STOCK"
                                      /\ a.created_at = today) = 0}

\* AlertService.check_low_stock on the batches bs and the alerts al.
check_low_stock(bs, al) ==
    [alerts |-> al (+) SetToBag(
         {NewAlert("LOW_STOCK",
                   IF AvailableStock(bs, i) < ItemRow(i).min_stock
                   THEN "CRITICAL" ELSE "WARNING",
                   NoBatch, i) : i \in LowStockItems(bs, al)}),
     created |-> Cardinality(LowStockItems(bs, al))]

\* check_dead_stock lines 283-297: the timestamps of the movements of the
\* ACTIVE batches of an item.
ActiveMovementDays(bs, ms, item_id) ==
    {ms[k].timestamp :
        k \in {j \in 1..Len(ms) :
                  /\ ms[j].batch_id \in DOMAIN bs
                  /\ bs[ms[j].batch_id].item_id = item_id
                  /\ bs[ms[j].batch_id].status = "ACTIVE"}}

\* DeadStockItems looking for an alert of the last 6 days.
DeadStockItemsSixDays(bs, ms, al) ==
    {i \in items :
        LET days == ActiveMovementDays(bs, ms, i)
        IN  /\ days # {}
            /\ \A d \in days : d < today - dead_stock_days
            /\ CountAlerts(al, LAMBDA a : /\ a.item_id = i
                                          /\ a.alert_type = "DEAD_STOCK"
                                          /\ a.created_at >= today - 6) = 0}

\* check_dead_stock lines 273 and 299-311: the items whose latest movement is
\* older than dead_stock_days and that have no DEAD_STOCK alert created in
\* the last 7 days.
DeadStockItems(bs, ms, al) ==
    {i \in items :
        LET days == ActiveMovementDays(bs, ms, i)
        IN  /\ days # {}
            /\ \A d \in days : d < today - dead_stock_days
            /\ CountAlerts(al, LAMBDA a : /\ a.item_id = i
                                          /\ a.alert_type = "DEAD_STOCK"
                                          /\ a.created_at >= today - 7) = 0}

\* AlertService.check_dead_stock on the batches bs, the movements ms and the
\* alerts al.
check_dead_stock(bs, ms, al) ==
    [alerts |-> al (+) SetToBag(
         {NewAlert("DEAD_STOCK", "WARNING", NoBatch, i) :
              i \in DeadStockItems(bs, ms, al)}),
     created |-> Cardinality(DeadStockItems(bs, ms, al))]

\* check_low_stock line 247: the existing-alert query finds two alerts or
\* more for an item below its reorder point.
LowStockRaises(bs, al) ==
    \E i \in items :
        /\ AvailableStock(bs, i) < ItemRow(i).reorder_point
        /\ CountAlerts(al, LAMBDA a : /\ a.item_id = i
                                      /\ a.alert_type = "LOW_STOCK"
                                      /\ a.created_at = today) > 1

\* check_dead_stock line 311: the existing-alert query finds two alerts or
\* more for an item whose stock is dead.
DeadStockRaises(bs, ms, al) ==
    \E i \in items :
        LET days == ActiveMovementDays(bs, ms, i)
        IN  /\ days # {}
            /\ \A d \in days : d < today - dead_stock_days
            /\ CountAlerts(al, LAMBDA a : /\ a.item_id = i
                                          /\ a.alert_type = "DEAD_STOCK"
                                          /\ a.created_at >= today - 7) > 1

\* SchedulerService.run_low_stock_check: check_low_stock committed on its own.
CheckLowStock ==
    LET r == check_low_stock(batches, alerts)
    IN  IF LowStockRaises(batches, alerts)
        THEN /\ response' = [op |-> "check_low_stock", ok |-> FALSE,
                             detail |-> MultipleResultsFound]
             /\ UNCHANGED <<items, batches, movements, batchSeq, movementSeq, today, requests, delivery_notes, alerts>>
        ELSE /\ BagCardinality(r.alerts) <= MaxAlerts
             /\ alerts' = r.alerts
             /\ response' = [op |-> "check_low_stock", ok |-> TRUE,
                             low_stock_alerts |-> r.created]
             /\ UNCHANGED <<items, batches, movements, batchSeq, movementSeq, today, requests, delivery_notes>>

\* SchedulerService.run_dead_stock_check: check_dead_stock committed on its
\* own.
CheckDeadStock ==
    LET r == check_dead_stock(batches, movements, alerts)
    IN  IF DeadStockRaises(batches, movements, alerts)
        THEN /\ response' = [op |-> "check_dead_stock", ok |-> FALSE,
                             detail |-> MultipleResultsFound]
             /\ UNCHANGED <<items, batches, movements, batchSeq, movementSeq, today, requests, delivery_notes, alerts>>
        ELSE /\ BagCardinality(r.alerts) <= MaxAlerts
             /\ alerts' = r.alerts
             /\ response' = [op |-> "check_dead_stock", ok |-> TRUE,
                             dead_stock_alerts |-> r.created]
             /\ UNCHANGED <<items, batches, movements, batchSeq, movementSeq, today, requests, delivery_notes>>

\* The batches whose rows a run of the checks that has not committed yet
\* has updated: the row lock is held until the commit.
LockedBatches ==
    UNION {IF requests[r].pc = "checks_run" THEN DOMAIN requests[r].scrap ELSE {} :
               r \in Requests}

\* AlertService.run_all_checks up to its commit, on the committed rows: the
\* four checks in order, each on the rows the earlier ones left.  failed
\* names the first check that raises, "none" when none does.
run_all_checks ==
    LET expiring == check_expiring_batches(batches, alerts)
        expired == check_expired_batches(expiring.alerts)
        low_stock == check_low_stock(expired.batches, expired.alerts)
        dead_stock == check_dead_stock(expired.batches, movements, low_stock.alerts)
    IN  [failed |-> IF ExpiringRaises(batches, alerts) THEN "expiring"
                    ELSE IF LowStockRaises(expired.batches, expired.alerts)
                         THEN "low_stock"
                    ELSE IF DeadStockRaises(expired.batches, movements,
                                            low_stock.alerts)
                         THEN "dead_stock"
                    ELSE "none",
         batches |-> expired.batches,
         alerts |-> dead_stock.alerts,
         expiring_alerts |-> expiring.created,
         expired_batches |-> expired.created,
         low_stock_alerts |-> low_stock.created,
         dead_stock_alerts |-> dead_stock.created]

\* The response of a run of the checks that committed.
ChecksResponse(r) ==
    [op |-> "run_all_checks", ok |-> TRUE,
     expiring_alerts |-> r.expiring_alerts,
     expired_batches |-> r.expired_batches,
     low_stock_alerts |-> r.low_stock_alerts,
     dead_stock_alerts |-> r.dead_stock_alerts]

\* The outcome of a run in which a check raised: the scheduled job logs the
\* error and rolls back, the endpoint answers 500 without a commit.
ChecksFailure(failed) ==
    [op |-> "run_all_checks", ok |-> FALSE, failed |-> failed,
     detail |-> MultipleResultsFound]

\* AlertService.run_all_checks, as called by POST /alerts/run-checks and by
\* the scheduled job, without interruption: the four checks in one
\* transaction, then the commit; when a check raises nothing is committed.
\* The run waits while another run holds the lock of a row it updates.
RunAllChecks ==
    LET r == run_all_checks
    IN  /\ ExpiredActive \cap LockedBatches = {}
        /\ IF r.failed # "none"
           THEN /\ response' = ChecksFailure(r.failed)
                /\ UNCHANGED <<items, batches, movements, batchSeq, movementSeq, today, requests, delivery_notes, alerts>>
           ELSE /\ BagCardinality(r.alerts) <= MaxAlerts
                /\ batches' = r.batches
                /\ alerts' = r.alerts
                /\ response' = ChecksResponse(r)
                /\ UNCHANGED <<items, movements, batchSeq, movementSeq, today, requests, delivery_notes>>

\* A run of run_all_checks up to its commit: its reads see the committed
\* rows, its inserts and updates are flushed but not yet visible to other
\* transactions.
RunAllChecksRun(r) ==
    LET run == run_all_checks
    IN  /\ requests[r].pc = "idle"
        /\ BagCardinality(run.alerts) <= MaxAlerts
        /\ requests' = [requests EXCEPT ![r] =
               [pc |-> "checks_run",
                failed |-> run.failed,
                new_alerts |-> run.alerts (-) alerts,
                scrap |-> [b \in ExpiredActive |-> run.batches[b].notes],
                counts |-> ChecksResponse(run)]]
        /\ response' = [op |-> "none", ok |-> TRUE]
        /\ UNCHANGED <<items, batches, movements, batchSeq, movementSeq, today, delivery_notes, alerts>>

\* The end of that run: the commit of its alerts and of its batch updates
\* (status and notes of the rows it marked), or the rollback when a check
\* raised.
RunAllChecksCommit(r) ==
    /\ requests[r].pc = "checks_run"
    /\ requests' = [requests EXCEPT ![r] = Idle]
    /\ IF requests[r].failed # "none"
       THEN /\ response' = ChecksFailure(requests[r].failed)
            /\ UNCHANGED <<items, batches, movements, batchSeq, movementSeq, today, delivery_notes, alerts>>
       ELSE /\ BagCardinality(alerts (+) requests[r].new_alerts) <= MaxAlerts
            /\ alerts' = alerts (+) requests[r].new_alerts
            /\ batches' = [b \in DOMAIN batches |->
                              IF b \in DOMAIN requests[r].scrap
                              THEN [batches[b] EXCEPT !.status = "SCRAP",
                                                      !.notes = requests[r].scrap[b]]
                              ELSE batches[b]]
            /\ response' = requests[r].counts
            /\ UNCHANGED <<items, movements, batchSeq, movementSeq, today, delivery_notes>>

\* The expiration dates of the batches received for the alert checks: one
\* day ahead, the day after each band's last day (the first day of the next
\* band on day 0, the last day of the band on day 1), and a date past the
\* dead stock period.
ExpiryDates ==
    {1, dead_stock_days + 2} \cup
    {thresholds[i].days + 1 : i \in DOMAIN thresholds}

\* The days on which the dead-stock check is observed: the day after a
\* receipt, the first days on which stock moved on day 0 or 1 is dead, and
\* the days around the end of the week after the first alert.
DeadStockDays ==
    {1, dead_stock_days + 1, dead_stock_days + 2, dead_stock_days + 8,
     dead_stock_days + 9}

\* An expiration date after every day of DeadStockDays.
DeadStockExpiry == dead_stock_days + 20

\* The days on which the alert checks are observed: the first days, and the
\* first day on which stock moved on day 0 is dead.
AlertDays == {1, 2, dead_stock_days + 1}

\* ------------------------------------------------------- item deletion

\* delete_item lines 211-217: deletion is refused while the item has an
\* ACTIVE batch.
HasActiveBatches(item_id) ==
    \E b \in DOMAIN batches :
        batches[b].item_id = item_id /\ batches[b].status = "ACTIVE"

\* delete_item: db.delete(item) cascades over Item.batches and over
\* Batch.movements (cascade="all, delete-orphan" on both relationships).
DeleteItem(item_id) ==
    /\ IF item_id \in items /\ ~HasActiveBatches(item_id)
       THEN LET gone == {b \in DOMAIN batches : batches[b].item_id = item_id}
            IN  /\ items' = items \ {item_id}
                /\ batches' = [b \in DOMAIN batches \ gone |-> batches[b]]
                /\ movements' = SelectSeq(movements,
                                          LAMBDA m : m.batch_id \notin gone)
                /\ alerts' = LET kept == {a \in BagToSet(alerts) :
                                              /\ a.item_id # item_id
                                              /\ a.batch_id \notin gone}
                              IN  [a \in kept |-> alerts[a]]
                /\ response' = [op |-> "delete_item", ok |-> TRUE]
       ELSE /\ UNCHANGED <<items, batches, movements, alerts>>
            /\ response' = [op |-> "delete_item", ok |-> FALSE]
    /\ UNCHANGED <<batchSeq, movementSeq, today, requests, delivery_notes>>

\* ------------------------------------------------------- delivery notes

\* models/delivery_note.py DeliveryNoteStatus
DeliveryNoteStatus == {"DRAFT", "ISSUED", "DELIVERED", "INVOICED", "CANCELLED"}

\* A date column that is NULL, an optional date that is not sent.
NoDate == -1

\* The rows of the customers table, and the customer ids a request carries:
\* a row and an id without a row.
Customers == {"acme"}
RequestCustomers == {"acme", "ghost"}

\* f"{next_seq:04d}" of generate_delivery_note_number.
DeliveryNoteCounterWidth == 4

\* NextCounter stepping by two.
NextDeliveryNoteCounterSkips(counters) ==
    IF counters = {} THEN 1 ELSE ParseCounter(Max(counters)) + 2

\* generate_delivery_note_number lines 52-60: next_seq from the result of the
\* query.
NextDeliveryNoteCounter(counters) ==
    IF counters = {} THEN 1 ELSE ParseCounter(Max(counters)) + 1

\* DocumentService.generate_delivery_note_number on the delivery notes dns:
\* the numbers LIKE DN-today-% are searched for their maximum.
generate_delivery_note_number(dns) ==
    LET counters == {FormatCounter(dns[i].delivery_note_number.seq,
                                   DeliveryNoteCounterWidth) :
                        i \in {j \in DOMAIN dns :
                                  dns[j].delivery_note_number.day = today}}
    IN  DocumentNumber("DN", today, NextDeliveryNoteCounter(counters))

\* create_delivery_note lines 107-112: the DeliveryNoteItem row of a line.
NewDeliveryNoteItem(line) ==
    [item_id |-> batches[line.batch_id].item_id,
     batch_id |-> line.batch_id,
     quantity |-> line.quantity]

\* create_delivery_note lines 86-115: the DeliveryNote row with its items;
\* issue_date is "issue_date or date.today()".
NewDeliveryNote(dn_number, customer_id, lines, issue_date) ==
    [delivery_note_number |-> dn_number,
     customer_id |-> customer_id,
     status |-> "DRAFT",
     issue_date |-> IF issue_date = NoDate THEN today ELSE issue_date,
     delivery_date |-> NoDate,
     items |-> [i \in 1..Len(lines) |-> NewDeliveryNoteItem(lines[i])]]

\* create_delivery_note lines 75-80 and 102-105: the customer and every
\* batch of the lines exist; each check raises ValueError.
DeliveryNoteValid(customer_id, lines) ==
    /\ customer_id \in Customers
    /\ \A i \in 1..Len(lines) : lines[i].batch_id \in DOMAIN batches

\* DocumentService.create_delivery_note and the commit of the endpoint: the
\* note is stored as DRAFT under a generated number, with one item per line.
\* No movement is recorded and no batch is read for its quantity.  A request
\* that raises ends without commit.
CreateDeliveryNote(customer_id, lines, issue_date) ==
    LET dn_number == generate_delivery_note_number(delivery_notes)
    IN  /\ Len(delivery_notes) < MaxNotes
        /\ IF ~DeliveryNoteValid(customer_id, lines)
           THEN /\ UNCHANGED delivery_notes
                /\ response' = [op |-> "create_delivery_note", ok |-> FALSE,
                                detail |-> IF customer_id \notin Customers
                                           THEN "customer not found"
                                           ELSE "batch not found"]
           ELSE IF \E i \in DOMAIN delivery_notes :
                       delivery_notes[i].delivery_note_number = dn_number
           THEN /\ UNCHANGED delivery_notes
                /\ response' = [op |-> "create_delivery_note", ok |-> FALSE,
                                detail |-> IntegrityError]
           ELSE /\ delivery_notes' = Append(delivery_notes,
                       NewDeliveryNote(dn_number, customer_id, lines, issue_date))
                /\ response' = [op |-> "create_delivery_note", ok |-> TRUE,
                                id |-> Len(delivery_notes) + 1,
                                delivery_note_number |-> dn_number]
        /\ UNCHANGED <<items, batches, movements, batchSeq, movementSeq, today, requests, alerts>>

\* update_delivery_note_status lines 292-298: the status is assigned, and
\* the issue date or delivery date is set to today when it is not set.
UpdatedDeliveryNote(dn, new_status) ==
    [dn EXCEPT !.status = new_status,
               !.issue_date = IF new_status = "ISSUED" /\ @ = NoDate
                              THEN today ELSE @,
               !.delivery_date = IF new_status = "DELIVERED" /\ @ = NoDate
                                 THEN today ELSE @]

\* DocumentService.update_delivery_note_status and the commit of the
\* endpoint: 400 for an unknown note.
UpdateDeliveryNoteStatus(id, new_status) ==
    /\ IF id \in DOMAIN delivery_notes
       THEN /\ delivery_notes' = [delivery_notes EXCEPT ![id] =
                                     UpdatedDeliveryNote(@, new_status)]
            /\ response' = [op |-> "update_delivery_note_status", ok |-> TRUE,
                            id |-> id, status |-> new_status]
       ELSE /\ UNCHANGED delivery_notes
            /\ response' = [op |-> "update_delivery_note_status", ok |-> FALSE,
                            id |-> id, status |-> new_status]
    /\ UNCHANGED <<items, batches, movements, batchSeq, movementSeq, today, requests, alerts>>

\* The lines of a delivery note request: one or two lines over the batch ids.
DeliveryLine == [batch_id : BatchIds, quantity : 1..MaxQty]
DeliveryRequests ==
    {<<l>> : l \in DeliveryLine} \cup
    {<<l, m>> : l \in {x \in DeliveryLine : x.batch_id = 1},
                m \in {x \in DeliveryLine : x.batch_id = 2}}

\* ---------------------------------------------------------------- clock

\* Midnight: date.today() moves to the next day.
AdvanceDay ==
    /\ today < MaxDay
    /\ today' = today + 1
    /\ response' = [op |-> "none", ok |-> TRUE]
    /\ UNCHANGED <<items, batches, movements, batchSeq, movementSeq, requests, delivery_notes, alerts>>

\* Midnights pass until date.today() is the given day.
AdvanceTo(day) ==
    /\ day > today
    /\ today' = day
    /\ response' = [op |-> "none", ok |-> TRUE]
    /\ UNCHANGED <<items, batches, movements, batchSeq, movementSeq, requests, delivery_notes, alerts>>

\* The ledger, goods receipt, single picks, scrapping, the expired check and
\* item deletion, each handler running without interruption.
Next ==
    \/ \E b \in BatchIds, t \in MovementType :
           \E q \in MovementQuantities(t) : RecordMovement(b, t, q)
    \/ \E i \in ItemIds, q \in 0..MaxQty, e \in Days :
           ReceiveGoods(i, q, e, NoNumber, None)
    \/ \E n \in 1..MaxBatches : \E rs \in [1..n -> PlainReceiptRows] :
           ReceiveMultiple(rs)
    \/ \E b \in BatchIds, q \in 0..MaxQty : AdjustQuantity(b, q)
    \/ \E b \in BatchIds, q \in 1..MaxQty : ExecutePick(b, q)
    \/ \E b \in BatchIds : MarkBatchAsScrap(b)
    \/ CheckExpiredBatches
    \/ \E i \in ItemIds : DeleteItem(i)
    \/ AdvanceDay

Spec == Init /\ [][Next]_vars

\* Picking and adjustment split at the batch row lock, interleaved with the
\* operations that change a batch's status or quantity in between.
NextInterleaved ==
    \/ \E i \in ItemIds, q \in 1..MaxQty, e \in Days :
           ReceiveGoods(i, q, e, NoNumber, None)
    \/ \E r \in Requests, b \in BatchIds, q \in 0..MaxQty :
           AdjustQuantityRead(r, b, q)
    \/ \E r \in Requests : AdjustQuantityRecord(r)
    \/ \E r \in Requests, b \in BatchIds, q \in 1..MaxQty :
           ExecutePickValidate(r, b, q)
    \/ \E r \in Requests : ExecutePickRecord(r)
    \/ \E b \in BatchIds : MarkBatchAsScrap(b)
    \/ CheckExpiredBatches
    \/ AdvanceDay

SpecInterleaved == Init /\ [][NextInterleaved]_vars

\* The ledger on its own: goods receipt, the service calls record_movement
\* and adjust_quantity, and manual scrapping.
NextLedger ==
    \/ \E i \in ItemIds, q \in 0..MaxQty, e \in Days :
           ReceiveGoods(i, q, e, NoNumber, None)
    \/ \E b \in BatchIds, t \in MovementType :
           \E q \in MovementQuantities(t) : RecordMovement(b, t, q)
    \/ \E b \in BatchIds, q \in 0..MaxQty : AdjustQuantity(b, q)
    \/ \E b \in BatchIds : MarkBatchAsScrap(b)

SpecLedger == Init /\ [][NextLedger]_vars

\* The FEFO engine's suggest and validate over the states that goods receipt,
\* picking, scrapping, batch updates, the expired check and the calendar
\* produce.
NextFEFO ==
    \/ \E i \in ItemIds, q \in 1..MaxQty, e \in Days :
           ReceiveGoods(i, q, e, NoNumber, None)
    \/ \E b \in BatchIds, q \in 1..MaxQty : ExecutePick(b, q)
    \/ \E b \in BatchIds : MarkBatchAsScrap(b)
    \/ \E b \in BatchIds : UpdateBatch(b, "ACTIVE")
    \/ CheckExpiredBatches
    \/ AdvanceDay
    \/ \E i \in ItemIds, q \in 1..MaxNeeded : SuggestBatchesForPicking(i, q)
    \/ \E b \in BatchIds, q \in 1..MaxQty : ValidatePicking(b, q)

SpecFEFO == Init /\ [][NextFEFO]_vars

\* Multi-item dispatch over received, picked and scrapped batches.
NextDispatch ==
    \/ \E i \in ItemIds, q \in 1..MaxQty, e \in Days :
           ReceiveGoods(i, q, e, NoNumber, None)
    \/ \E lines \in DispatchRequests : CreateDispatch(lines)
    \/ \E b \in BatchIds, q \in 1..MaxQty : ExecutePick(b, q)
    \/ \E b \in BatchIds : MarkBatchAsScrap(b)
    \/ AdvanceDay

SpecDispatch == Init /\ [][NextDispatch]_vars

\* Two multi-item dispatches in flight over two received batches.
NextDispatchLocks ==
    \/ \E i \in ItemIds, q \in 1..MaxQty :
           ReceiveGoods(i, q, MaxDay, NoNumber, None)
    \/ \E d \in Dispatchers, lines \in DispatchRequests :
           CreateDispatchValidate(d, lines)
    \/ \E d \in Dispatchers : CreateDispatchRecord(d)
    \/ \E d \in Dispatchers : CreateDispatchCommit(d)
    \/ \E d \in Dispatchers : DeadlockAbort(d)

\* The state after construction with two dispatch requests to be served.
InitDispatchLocks ==
    /\ items = ItemIds
    /\ batches = <<>>
    /\ movements = <<>>
    /\ batchSeq = 0
    /\ movementSeq = 0
    /\ today = 0
    /\ requests = [d \in Dispatchers |-> Idle]
    /\ response = [op |-> "none", ok |-> TRUE]
    /\ delivery_notes = <<>>
    /\ alerts = EmptyBag

SpecDispatchLocks == InitDispatchLocks /\ [][NextDispatchLocks]_vars

\* Goods receipt of single items with every kind of request: unknown items,
\* locations, supplied batch numbers, past dates, quantity zero.
NextReceiveSingle ==
    \/ \E i \in ItemIds \cup {"unknown"}, q \in 0..MaxQty, e \in Days,
          n \in RequestBatchNumbers, l \in RequestLocations :
           ReceiveGoods(i, q, e, n, l)
    \/ AdvanceDay

SpecReceiveSingle == Init /\ [][NextReceiveSingle]_vars

\* Goods receipt of one or several rows per request.
NextReceiving ==
    \/ \E i \in ItemIds, q \in 1..MaxQty, e \in Days,
          n \in RequestBatchNumbers :
           ReceiveGoods(i, q, e, n, None)
    \/ \E k \in 1..MaxBatches : \E rs \in [1..k -> ReceiptRows] :
           ReceiveMultiple(rs)
    \/ AdvanceDay

SpecReceiving == Init /\ [][NextReceiving]_vars

\* The number generator: goods receipt with and without a supplied number
\* (among them the last number of the format), and the generator called on
\* its own.
NextNumbering ==
    \/ \E q \in 1..MaxQty, n \in NumberingBatchNumbers :
           ReceiveGoods("ink", q, MaxDay, n, None)
    \/ \E prefix \in Prefixes : GenerateBatchNumber(prefix)
    \/ AdvanceDay

SpecNumbering == Init /\ [][NextNumbering]_vars

\* Goods receipt split between the generation of its numbers and the flush
\* of the batch row, next to receipts that run without interruption.
NextConcurrentReceive ==
    \/ \E r \in Requests, q \in 1..MaxQty, d \in Days, l \in RequestLocations :
           ReceiveGoodsGenerate(r, "ink", q, d, l)
    \/ \E r \in Requests : ReceiveGoodsFlush(r)
    \/ \E q \in 1..MaxQty, d \in Days, n \in RequestBatchNumbers :
           ReceiveGoods("ink", q, d, n, None)
    \/ \E b \in BatchIds, t \in {"DISPATCH", "ADJUSTMENT"}, q \in 1..MaxQty :
           RecordMovement(b, t, q)

SpecConcurrentReceive == Init /\ [][NextConcurrentReceive]_vars

\* Delivery notes over received batches: creation with lines, over days.
NextDelivery ==
    \/ \E q \in 1..MaxQty : ReceiveGoods("ink", q, MaxDeliveryDay, NoNumber, None)
    \/ \E c \in RequestCustomers, ls \in DeliveryRequests,
          d \in {NoDate} \cup (0..MaxDeliveryDay) :
           CreateDeliveryNote(c, ls, d)
    \/ \E day \in 1..MaxDeliveryDay : AdvanceTo(day)

SpecDelivery == Init /\ [][NextDelivery]_vars

\* The status of delivery notes: notes created without an issue date,
\* status updates to every status, over days.
NextDeliveryStatus ==
    \/ ReceiveGoods("ink", 1, MaxDeliveryDay, NoNumber, None)
    \/ CreateDeliveryNote("acme", <<[batch_id |-> 1, quantity |-> 1]>>, NoDate)
    \/ \E id \in 1..(MaxNotes + 1), st \in DeliveryNoteStatus :
           UpdateDeliveryNoteStatus(id, st)
    \/ \E day \in 1..MaxDeliveryDay : AdvanceTo(day)

SpecDeliveryStatus == Init /\ [][NextDeliveryStatus]_vars

\* The life of delivery notes created without an issue date and moved along
\* DRAFT -> ISSUED -> DELIVERED -> INVOICED or cancelled, over days.
NextDeliveryDates ==
    \/ ReceiveGoods("ink", 1, MaxDeliveryDay, NoNumber, None)
    \/ CreateDeliveryNote("acme", <<[batch_id |-> 1, quantity |-> 1]>>, NoDate)
    \/ \E id \in DOMAIN delivery_notes, st \in DeliveryNoteStatus :
           /\ <<delivery_notes[id].status, st>> \in
                  {<<"DRAFT", "ISSUED">>, <<"ISSUED", "DELIVERED">>,
                   <<"DELIVERED", "INVOICED">>, <<"DRAFT", "CANCELLED">>,
                   <<"ISSUED", "CANCELLED">>, <<"DELIVERED", "CANCELLED">>}
           /\ UpdateDeliveryNoteStatus(id, st)
    \/ \E day \in 1..MaxDeliveryDay : AdvanceTo(day)

SpecDeliveryDates == Init /\ [][NextDeliveryDates]_vars

\* The four alert checks run together, over received batches, on the days
\* of AlertDays.
NextAlerts ==
    \/ \E d \in ExpiryDates : ReceiveGoods("ink", 1, d, NoNumber, None)
    \/ RunAllChecks
    \/ \E day \in AlertDays : AdvanceTo(day)

SpecAlerts == Init /\ [][NextAlerts]_vars

\* The expiring-batches check on its own.
NextExpiring ==
    \/ \E d \in ExpiryDates : ReceiveGoods("ink", 1, d, NoNumber, None)
    \/ \E b \in BatchIds : MarkBatchAsScrap(b)
    \/ CheckExpiringBatches
    \/ \E day \in AlertDays : AdvanceTo(day)

SpecExpiring == Init /\ [][NextExpiring]_vars

\* The expired-batches check on its own, next to the writers of the batch
\* status.
NextExpired ==
    \/ \E q \in 1..MaxQty, d \in Days : ReceiveGoods("ink", q, d, NoNumber, None)
    \/ \E b \in BatchIds : MarkBatchAsScrap(b)
    \/ \E b \in BatchIds, sent \in BatchStatus \cup {"unset"} : UpdateBatch(b, sent)
    \/ CheckExpiredBatches
    \/ AdvanceDay

SpecExpired == Init /\ [][NextExpired]_vars

\* The low-stock check on its own, over receipts, dispatches, scrapping and
\* days.
NextLowStock ==
    \/ \E q \in 1..MaxQty, d \in Days : ReceiveGoods("ink", q, d, NoNumber, None)
    \/ \E b \in BatchIds, q \in 1..MaxQty : RecordMovement(b, "DISPATCH", q)
    \/ \E b \in BatchIds : MarkBatchAsScrap(b)
    \/ CheckLowStock
    \/ AdvanceDay

SpecLowStock == Init /\ [][NextLowStock]_vars

\* The dead-stock check on its own, over receipts, dispatches, scrapping and
\* the days of DeadStockDays.
NextDeadStock ==
    \/ ReceiveGoods("ink", 1, DeadStockExpiry, NoNumber, None)
    \/ \E b \in BatchIds : RecordMovement(b, "DISPATCH", 1)
    \/ \E b \in BatchIds : MarkBatchAsScrap(b)
    \/ CheckDeadStock
    \/ \E day \in DeadStockDays : AdvanceTo(day)

SpecDeadStock == Init /\ [][NextDeadStock]_vars

\* The expiration dates of the batches received next to overlapping runs:
\* a batch that expires on the second day, and one more than 30 days ahead
\* on both days.
OverlapExpiryDates == {0, alert_threshold_60 + 1}

\* Runs of the alert checks that overlap: one run split before its commit,
\* next to runs (the scheduled job, the startup job, the manual request)
\* that go through without interruption, over receipts and days.
NextOverlap ==
    \/ \E d \in OverlapExpiryDates : ReceiveGoods("ink", 1, d, NoNumber, None)
    \/ \E r \in Requests : RunAllChecksRun(r)
    \/ \E r \in Requests : RunAllChecksCommit(r)
    \/ RunAllChecks
    \/ AdvanceDay

SpecOverlap == Init /\ [][NextOverlap]_vars

\* The days of the daily job around the end of the dead-stock period of a
\* receipt of the first day, and expiration dates on the first of them and
\* far beyond the expiration bands.
DailyJobDays == {dead_stock_days + 1, dead_stock_days + 2}
DailyJobExpiry == {dead_stock_days + 1, 2 * dead_stock_days}

\* The daily job over batches that expire and stock that is dead: runs that
\* go through without interruption next to one split before its commit.
NextDailyJob ==
    \/ \E d \in DailyJobExpiry : ReceiveGoods("ink", 1, d, NoNumber, None)
    \/ \E r \in Requests : RunAllChecksRun(r)
    \/ \E r \in Requests : RunAllChecksCommit(r)
    \/ RunAllChecks
    \/ \E day \in DailyJobDays : AdvanceTo(day)

SpecDailyJob == Init /\ [][NextDailyJob]_vars

\* Dispatch requests on received batches that run concurrently: one
\* execute_pick split at the batch row lock, next to picks that run without
\* interruption.
NextConcurrentDispatch ==
    \/ \E q \in 1..MaxQty : ReceiveGoods("ink", q, MaxDay, NoNumber, None)
    \/ \E r \in Requests, b \in BatchIds, q \in 1..MaxQty :
           ExecutePickValidate(r, b, q)
    \/ \E r \in Requests : ExecutePickRecord(r)
    \/ \E b \in BatchIds, q \in 1..MaxQty : ExecutePick(b, q)

SpecConcurrentDispatch == Init /\ [][NextConcurrentDispatch]_vars

\* adjust_quantity split between its read of the batch and record_movement,
\* next to picks and adjustments that run without interruption.
NextConcurrentAdjust ==
    \/ \E q \in 1..MaxQty : ReceiveGoods("ink", q, MaxDay, NoNumber, None)
    \/ \E r \in Requests, b \in BatchIds, q \in 0..MaxQty :
           AdjustQuantityRead(r, b, q)
    \/ \E r \in Requests : AdjustQuantityRecord(r)
    \/ \E b \in BatchIds, q \in 1..MaxQty : ExecutePick(b, q)
    \/ \E b \in BatchIds, q \in 0..MaxQty : AdjustQuantity(b, q)

SpecConcurrentAdjust == Init /\ [][NextConcurrentAdjust]_vars

\* ------------------------------------------------------ ledger properties

Last(seq) == seq[Len(seq)]

\* The movements recorded for batch b after the RECEIPT written when the
\* batch was received (the first movement of every batch).
LaterMovementsOf(b) == Tail(MovementsOf(movements, b))

\* A movement counted with its sign: RECEIPT and positive ADJUSTMENT +,
\* DISPATCH, SCRAP, TRANSFER and negative ADJUSTMENT -.
Signed(m) ==
    IF m.movement_type = "RECEIPT" THEN m.quantity
    ELSE IF m.movement_type = "ADJUSTMENT"
         THEN (IF m.quantity_after >= m.quantity_before
               THEN m.quantity ELSE -m.quantity)
    ELSE -m.quantity

RECURSIVE SignedSum(_)
SignedSum(ms) == IF ms = <<>> THEN 0 ELSE Signed(Head(ms)) + SignedSum(Tail(ms))

\* C1: ledger conservation.  In every state every batch has
\* quantity_available = quantity_received + the signed sum of the movements
\* recorded for it.  quantity_received is the quantity of the RECEIPT written
\* at goods receipt (tests/test_movements.py: received 100, RECEIPT 100,
\* DISPATCH 30, available 70), so the movements summed are the later ones.
LedgerConservation ==
    \A b \in DOMAIN batches :
        batches[b].quantity_available =
            batches[b].quantity_received + SignedSum(LaterMovementsOf(b))

\* C2: non-negativity.  No batch ever has quantity_available < 0.
NonNegativity ==
    \A b \in DOMAIN batches : batches[b].quantity_available >= 0

\* C2 witness: a DISPATCH, SCRAP or negative ADJUSTMENT has taken a batch
\* down to exactly 0.
NonNegativityWitness ==
    \E i \in DOMAIN movements :
        /\ movements[i].movement_type \in {"DISPATCH", "SCRAP", "ADJUSTMENT"}
        /\ movements[i].quantity > 0
        /\ movements[i].quantity_after = 0
        /\ movements[i].batch_id \in DOMAIN batches
        /\ batches[movements[i].batch_id].quantity_available = 0

\* The calls the ledger has to refuse: unknown batch, DISPATCH or SCRAP of
\* more than is available, ADJUSTMENT below zero.
MustFail(batch_id, movement_type, quantity) ==
    \/ batch_id \notin DOMAIN batches
    \/ /\ movement_type \in {"DISPATCH", "SCRAP"}
       /\ quantity > batches[batch_id].quantity_available
    \/ /\ movement_type = "ADJUSTMENT"
       /\ batches[batch_id].quantity_available + quantity < 0

\* C3: a record_movement call that has to be refused fails and changes
\* neither the batches (quantity_available, status, version) nor the
\* movements.
FailedMovementChangesNothing ==
    [][\A b \in BatchIds, t \in MovementType :
         \A q \in MovementQuantities(t) :
           (MustFail(b, t, q) /\ RecordMovement(b, t, q)) =>
               /\ ~response'.ok
               /\ batches' = batches
               /\ movements' = movements]_vars

\* C3 witness: record_movement has just failed while a batch with stock
\* exists (a DISPATCH of more than the batch holds is among such calls).
FailedMovementWitness ==
    /\ response = [op |-> "record_movement", ok |-> FALSE]
    /\ \E b \in DOMAIN batches :
           /\ batches[b].quantity_available > 0
           /\ batches[b].quantity_available < MaxQty

\* C4: the Movement appended by a successful record_movement of type
\* RECEIPT, DISPATCH, SCRAP or ADJUSTMENT stores |quantity|, its
\* quantity_before and quantity_after are the batch's quantity_available
\* before and after the call, and after - before is +quantity (RECEIPT,
\* positive ADJUSTMENT) or -quantity (DISPATCH, SCRAP, negative ADJUSTMENT).
MovementSnapshot ==
    [][\A b \in BatchIds, t \in MovementType \ {"TRANSFER"} :
         \A q \in MovementQuantities(t) :
           (RecordMovement(b, t, q) /\ response'.ok) =>
               LET m == Last(movements')
               IN  /\ Len(movements') = Len(movements) + 1
                   /\ m.batch_id = b /\ m.movement_type = t
                   /\ m.quantity >= 0
                   /\ m.quantity_before = batches[b].quantity_available
                   /\ m.quantity_after = batches'[b].quantity_available
                   /\ m.quantity_after - m.quantity_before =
                          IF t = "RECEIPT" \/ (t = "ADJUSTMENT" /\ q >= 0)
                          THEN m.quantity ELSE -m.quantity]_vars

\* C4 witness: the ledger holds a negative ADJUSTMENT and a DISPATCH written
\* by record_movement.
MovementSnapshotWitness ==
    /\ \E i \in DOMAIN movements :
           /\ movements[i].movement_type = "ADJUSTMENT"
           /\ movements[i].quantity_after < movements[i].quantity_before
    /\ \E i \in DOMAIN movements : movements[i].movement_type = "DISPATCH"

\* C5: a TRANSFER of quantity q takes q from the source batch: the movement
\* records quantity_after = quantity_before - q.
TransferReducesSource ==
    \A i \in DOMAIN movements :
        movements[i].movement_type = "TRANSFER" =>
            movements[i].quantity_after =
                movements[i].quantity_before - movements[i].quantity

\* C6: no DISPATCH movement is appended for a batch that is SCRAP when the
\* movement is written, whatever happened between the validation and the
\* write of execute_pick.
NoDispatchFromScrap ==
    [][Len(movements') = Len(movements) + 1 =>
          LET m == Last(movements')
          IN  m.movement_type = "DISPATCH" =>
                  batches[m.batch_id].status # "SCRAP"]_vars

\* C7: status monotonicity.  A batch that is SCRAP is SCRAP in every later
\* state in which it exists.
ScrapIsTerminal ==
    [][\A b \in DOMAIN batches :
          (batches[b].status = "SCRAP" /\ b \in DOMAIN batches') =>
              batches'[b].status = "SCRAP"]_vars

\* C8: a DEPLETED batch has quantity_available = 0.
DepletedHasNoStock ==
    \A b \in DOMAIN batches :
        batches[b].status = "DEPLETED" => batches[b].quantity_available = 0

\* C9: every batch has quantity_available <= quantity_received.
AvailableWithinReceived ==
    \A b \in DOMAIN batches :
        batches[b].quantity_available <= batches[b].quantity_received

\* What the ledger has added to a batch since its receipt: the RECEIPT
\* movements and the positive ADJUSTMENTs.
Inbound(m) ==
    IF \/ m.movement_type = "RECEIPT"
       \/ m.movement_type = "ADJUSTMENT" /\ m.quantity_after >= m.quantity_before
    THEN m.quantity ELSE 0

RECURSIVE InboundSum(_)
InboundSum(ms) == IF ms = <<>> THEN 0 ELSE Inbound(Head(ms)) + InboundSum(Tail(ms))

\* C9 as amended: quantity_available never exceeds quantity_received plus
\* the RECEIPT movements and positive ADJUSTMENTs recorded for the batch
\* after its receipt; it stays within quantity_received while there are none.
AvailableWithinReceivedAndInbound ==
    \A b \in DOMAIN batches :
        batches[b].quantity_available <=
            batches[b].quantity_received + InboundSum(LaterMovementsOf(b))

\* C9 witness: a RECEIPT or positive ADJUSTMENT has raised a batch above
\* its quantity_received.
AvailableAboveReceivedWitness ==
    \E b \in DOMAIN batches :
        /\ batches[b].quantity_available > batches[b].quantity_received
        /\ InboundSum(LaterMovementsOf(b)) > 0

\* C10: append-only ledger.  Every Movement row of a state is a row of the
\* next state, with the same fields.
AppendOnlyLedger ==
    [][\A i \in DOMAIN movements :
          \E j \in DOMAIN movements' : movements'[j] = movements[i]]_vars

\* -------------------------------------------------------- FEFO properties

\* A candidate batch of an item: ACTIVE, with stock, not expired.
IsCandidate(b, item_id) ==
    /\ batches[b].item_id = item_id
    /\ batches[b].status = "ACTIVE"
    /\ batches[b].quantity_available > 0
    /\ batches[b].expiration_date >= today

\* The suggestion list of the suggest call that has just returned.
Suggested == response.suggestions

\* C11: FEFO ordering.  The list returned by suggest has non-decreasing
\* expiration dates, and a batch is suggested only if every candidate batch
\* of the item with a strictly earlier expiration date is suggested with its
\* full quantity_available.
FEFOOrdering ==
    response.op = "suggest" =>
        /\ \A i, j \in DOMAIN Suggested :
               i < j => Suggested[i].expiration_date <= Suggested[j].expiration_date
        /\ \A i \in DOMAIN Suggested :
               \A c \in DOMAIN batches :
                   (/\ IsCandidate(c, response.item_id)
                    /\ batches[c].expiration_date < Suggested[i].expiration_date)
                   => \E k \in DOMAIN Suggested :
                          /\ Suggested[k].batch_id = c
                          /\ Suggested[k].suggested_quantity =
                                 batches[c].quantity_available

\* C11 witness: suggest has returned two batches, the second expiring later.
FEFOOrderingWitness ==
    /\ response.op = "suggest"
    /\ Len(Suggested) = 2
    /\ Suggested[1].expiration_date < Suggested[2].expiration_date

RECURSIVE SuggestedSum(_)
SuggestedSum(ss) ==
    IF ss = <<>> THEN 0 ELSE Head(ss).suggested_quantity + SuggestedSum(Tail(ss))

RECURSIVE CandidateTotal(_, _)
CandidateTotal(S, item_id) ==
    IF S = {} THEN 0
    ELSE LET b == CHOOSE c \in S : TRUE
         IN  (IF IsCandidate(b, item_id) THEN batches[b].quantity_available
              ELSE 0) + CandidateTotal(S \ {b}, item_id)

\* C12: suggest allocates min(quantity_available, remaining need) per batch
\* in order: every suggested quantity is > 0 and <= the batch's
\* quantity_available, only the last can be smaller than it, the quantities
\* sum to min(Q, total available), and the sum is Q exactly when
\* can_fulfill(item, Q).
SuggestAllocation ==
    response.op = "suggest" =>
        LET total == CandidateTotal(DOMAIN batches, response.item_id)
            needed == response.quantity_needed
        IN  /\ \A i \in DOMAIN Suggested :
                   /\ Suggested[i].suggested_quantity > 0
                   /\ Suggested[i].suggested_quantity <=
                          batches[Suggested[i].batch_id].quantity_available
                   /\ i < Len(Suggested) =>
                          Suggested[i].suggested_quantity =
                              batches[Suggested[i].batch_id].quantity_available
            /\ SuggestedSum(Suggested) = Min(needed, total)
            /\ (SuggestedSum(Suggested) = needed) <=>
                   can_fulfill(response.item_id, needed)

\* C12 witness: suggest has returned two batches and takes only a part of
\* the second.
SuggestAllocationWitness ==
    /\ response.op = "suggest"
    /\ Len(Suggested) = 2
    /\ Suggested[2].suggested_quantity <
           batches[Suggested[2].batch_id].quantity_available

\* C13: every batch returned by suggest is, at the time of the call, ACTIVE,
\* with quantity_available > 0 and expiration_date >= today; so a batch the
\* expired check has turned to SCRAP is not in a later suggest.
SuggestedArePickable ==
    response.op = "suggest" =>
        \A i \in DOMAIN Suggested :
            LET batch == batches[Suggested[i].batch_id]
            IN  /\ batch.status = "ACTIVE"
                /\ batch.quantity_available > 0
                /\ batch.expiration_date >= today

\* C13 witness: suggest has returned a batch while a batch of the same item
\* that expired and is SCRAP holds stock.
SuggestedArePickableWitness ==
    /\ response.op = "suggest"
    /\ Suggested # <<>>
    /\ \E b \in DOMAIN batches :
           /\ batches[b].item_id = response.item_id
           /\ batches[b].status = "SCRAP"
           /\ batches[b].expiration_date < today
           /\ batches[b].quantity_available > 0

\* C14: among suggested batches with the same expiration_date the one with
\* the earlier receipt_date comes first, and among equal receipt dates the
\* one with the smaller batch id.
TieBreakOrder ==
    response.op = "suggest" =>
        \A i, j \in DOMAIN Suggested :
            (i < j /\ Suggested[i].expiration_date = Suggested[j].expiration_date)
            => LET first == batches[Suggested[i].batch_id]
                   second == batches[Suggested[j].batch_id]
               IN  \/ first.receipt_date < second.receipt_date
                   \/ /\ first.receipt_date = second.receipt_date
                      /\ Suggested[i].batch_id < Suggested[j].batch_id

\* The pick of the validate call that has just returned is one validate has
\* to reject: unknown batch, batch not ACTIVE, batch expired, or more than
\* the batch holds.
MustReject ==
    \/ response.batch_id \notin DOMAIN batches
    \/ batches[response.batch_id].status # "ACTIVE"
    \/ batches[response.batch_id].expiration_date < today
    \/ response.quantity > batches[response.batch_id].quantity_available

\* C15: validate returns ok = false with a non-empty error list exactly when
\* the batch does not exist, is not ACTIVE, is expired or holds less than
\* the quantity; otherwise ok = true with no errors, whatever the warnings.
ValidateRejectsExactly ==
    response.op = "validate" =>
        /\ MustReject <=> (~response.ok /\ response.errors # <<>>)
        /\ ~MustReject => (response.ok /\ response.errors = <<>>)

\* C15 witness: validate has accepted a pick with a warning.
ValidateRejectsExactlyWitness ==
    /\ response.op = "validate"
    /\ response.ok
    /\ response.warnings # <<>>

\* The FEFO-deviation warnings of the validate call that has just returned.
FefoWarnings ==
    {i \in DOMAIN response.warnings : response.warnings[i].kind = "fefo"}

\* The warnings name one of the earliest expiring batches of the set S.
NamesEarliestOf(S) ==
    \E i \in FefoWarnings : \E a \in S :
        /\ \A c \in S : batches[a].expiration_date <= batches[c].expiration_date
        /\ response.warnings[i].batch_number = batches[a].batch_number
        /\ response.warnings[i].expiration_date = batches[a].expiration_date

\* The ACTIVE batches of the item of batch b that expire before b.
EarlierActive(b) ==
    {a \in DOMAIN batches :
        /\ a # b
        /\ batches[a].item_id = batches[b].item_id
        /\ batches[a].status = "ACTIVE"
        /\ batches[a].expiration_date < batches[b].expiration_date}

\* C16: when validate accepts batch B and an ACTIVE batch of the same item
\* with an earlier expiration date exists, the warnings name the earliest
\* expiring such batch (number and expiration date); when none exists there
\* is no FEFO-deviation warning.
FefoDeviationWarning ==
    (response.op = "validate" /\ response.ok) =>
        IF EarlierActive(response.batch_id) # {}
        THEN NamesEarliestOf(EarlierActive(response.batch_id))
        ELSE FefoWarnings = {}

\* C16 as amended: the batches that count are the ACTIVE batches of the same
\* item that expire before B, hold stock (quantity_available > 0) and are
\* not expired (expiration_date >= today).
FefoDeviationWarningPickable ==
    (response.op = "validate" /\ response.ok) =>
        LET pickable == {a \in EarlierActive(response.batch_id) :
                            /\ batches[a].quantity_available > 0
                            /\ batches[a].expiration_date >= today}
        IN  IF pickable # {}
            THEN NamesEarliestOf(pickable)
            ELSE FefoWarnings = {}

\* C16 witness: validate has accepted a pick and warned of an earlier
\* expiring batch.
FefoDeviationWitness ==
    /\ response.op = "validate"
    /\ response.ok
    /\ FefoWarnings # {}

\* ---------------------------------------------------- dispatch properties

\* C17: a multi-item dispatch is all-or-nothing.  A create_dispatch request
\* that fails, at validation or at record_movement (the same batch listed
\* twice with lines that together exceed its stock), changes no batch
\* (quantity_available, status, version) and persists no movement.
DispatchAllOrNothing ==
    [][\A lines \in DispatchRequests :
          (CreateDispatch(lines) /\ ~response'.ok) =>
              /\ batches' = batches
              /\ movements' = movements]_vars

\* C17 witness: a dispatch passed validation and failed at record_movement
\* after its first line had been recorded.
DispatchAllOrNothingWitness ==
    /\ response.op = "create_dispatch"
    /\ ~response.ok
    /\ response.stage = "record"

\* --------------------------------------------------- receiving properties

\* C18: a successful receive-single creates exactly one batch, ACTIVE with
\* quantity_available = quantity_received = quantity, and exactly one RECEIPT
\* movement for it with quantity_before = 0, quantity_after = quantity and
\* the returned GRN number as reference; no other batch or movement changes.
ReceiveSingleCreatesOne ==
    [][\A i \in ItemIds \cup {"unknown"}, q \in 0..MaxQty, e \in Days,
          n \in RequestBatchNumbers, l \in RequestLocations :
          (ReceiveGoods(i, q, e, n, l) /\ response'.ok) =>
              LET new == response'.batch_id
                  m == Last(movements')
              IN  /\ new \notin DOMAIN batches
                  /\ DOMAIN batches' = DOMAIN batches \cup {new}
                  /\ \A b \in DOMAIN batches : batches'[b] = batches[b]
                  /\ batches'[new].status = "ACTIVE"
                  /\ batches'[new].item_id = i
                  /\ batches'[new].quantity_available = q
                  /\ batches'[new].quantity_received = q
                  /\ Len(movements') = Len(movements) + 1
                  /\ SubSeq(movements', 1, Len(movements)) = movements
                  /\ m.batch_id = new
                  /\ m.movement_type = "RECEIPT"
                  /\ m.quantity = q
                  /\ m.quantity_before = 0
                  /\ m.quantity_after = q
                  /\ m.reference_number = response'.grn_number]_vars

\* C18 witness: a second batch has just been received.
ReceiveSingleCreatesOneWitness ==
    /\ response.op = "receive_goods"
    /\ response.ok
    /\ response.batch_id = 2
    /\ Len(movements) = 2

\* C19: receive-single is rejected and creates no batch and no movement when
\* the item does not exist, the location given is missing or inactive, the
\* expiration date is before today, the quantity is <= 0, or the batch
\* number supplied exists already.
ReceiveSingleRejects ==
    [][\A i \in ItemIds \cup {"unknown"}, q \in 0..MaxQty, e \in Days,
          n \in RequestBatchNumbers, l \in RequestLocations :
          (/\ ReceiveGoods(i, q, e, n, l)
           /\ \/ i \notin items
              \/ l \in {"closed", "gone"}
              \/ e < today
              \/ q <= 0
              \/ n # NoNumber /\ \E b \in DOMAIN batches :
                                    batches[b].batch_number = n)
          => /\ ~response'.ok
             /\ batches' = batches
             /\ movements' = movements
             /\ batchSeq' = batchSeq]_vars

\* C19 witness: a receipt with a batch number supplied has just been
\* rejected because a batch carries that number.
ReceiveSingleRejectsWitness ==
    /\ response.op = "receive_goods"
    /\ ~response.ok
    /\ response.detail = "batch number exists"
    /\ batches # <<>>

\* C20: receive-multiple is atomic and uses one GRN.  On success every row
\* has become a batch that passed the row checks (known item, no location or
\* an active one, expiration not before today) and the RECEIPT movement of
\* each carries the GRN number of the response; a request that fails leaves
\* no batch and no movement, those of the rows before the failing row
\* included.
ReceiveMultipleAtomic ==
    [][response'.op = "receive_multiple" =>
          IF response'.ok
          THEN LET created == DOMAIN batches' \ DOMAIN batches
                   first == Len(movements) + 1
               IN  /\ Cardinality(created) = response'.batches_created
                   /\ Len(movements') =
                          Len(movements) + response'.batches_created
                   /\ \A b \in DOMAIN batches : batches'[b] = batches[b]
                   /\ SubSeq(movements', 1, Len(movements)) = movements
                   /\ \A b \in created :
                          /\ batches'[b].item_id \in items
                          /\ batches'[b].location_id \in {None, "shelf"}
                          /\ batches'[b].expiration_date >= today
                          /\ \E k \in first..Len(movements') :
                                 movements'[k].batch_id = b
                   /\ \A k \in first..Len(movements') :
                          /\ movements'[k].movement_type = "RECEIPT"
                          /\ movements'[k].batch_id \in created
                          /\ movements'[k].reference_number =
                                 response'.grn_number
          ELSE /\ batches' = batches
               /\ movements' = movements]_vars

\* C20 witness: a request of two rows has just been received under one GRN.
ReceiveMultipleAtomicWitness ==
    /\ response.op = "receive_multiple"
    /\ response.ok
    /\ response.batches_created = 2
    /\ Len(movements) = 2
    /\ movements[1].reference_number = movements[2].reference_number

\* ---------------------------------------------------- numbering properties

\* The counters of the numbers in a sequence are strictly ascending.
Ascending(numbers) ==
    \A i, j \in 1..Len(numbers) : i < j => numbers[i].seq < numbers[j].seq

\* C21: the numbers that calls of generate_batch_number in a row return for
\* one prefix on one day have strictly ascending counters, and three calls
\* for GR with no batch stored return the counters 1, 2 and 3.
NumberingDeterminism ==
    response.op = "generate_batch_number" =>
        /\ Ascending(response.numbers)
        /\ (batches = <<>> /\ response.prefix = "GR" /\ Len(response.numbers) = 3) =>
               /\ response.numbers[1].seq = 1
               /\ response.numbers[2].seq = 2
               /\ response.numbers[3].seq = 3

\* A stored batch number of this prefix and of today carries the last counter
\* of the format.
LastCounterStored(prefix) ==
    \E b \in DOMAIN batches :
        batches[b].batch_number = DocumentNumber(prefix, today, LastCounter)

\* C22: when a number with the last counter of the format is stored for the
\* prefix and today, generating the next number fails; no call returns a
\* counter outside the format or a number that is stored already.
CounterOverflowFails ==
    response.op = "generate_batch_number" =>
        /\ LastCounterStored(response.prefix) /\ response.day = today => ~response.ok
        /\ response.ok =>
               \A i \in 1..Len(response.numbers) :
                   Len(FormatCounter(response.numbers[i].seq, CounterWidth)) = CounterWidth

\* No two rows of the batches table carry the same batch number.
UniqueBatchNumbers ==
    \A b, c \in DOMAIN batches :
        batches[b].batch_number = batches[c].batch_number => b = c

\* C23: two receive operations that generated the same number never store it
\* twice, and the one that flushes second still succeeds, under a number of
\* its own.
CollisionRetried ==
    [][/\ UniqueBatchNumbers'
       /\ \A r \in Requests :
              requests[r].pc = "receive_generated" /\ requests'[r].pc = "idle"
                  => response'.ok]_vars

\* ----------------------------------------------- delivery note properties

\* The highest counter among the delivery notes before the i-th that carry
\* its day, 0 when there is none.
HighestEarlierCounter(i) ==
    LET earlier == {delivery_notes[j].delivery_note_number.seq :
                       j \in {k \in 1..(i - 1) :
                                 delivery_notes[k].delivery_note_number.day =
                                 delivery_notes[i].delivery_note_number.day}}
    IN  IF earlier = {} THEN 0
        ELSE CHOOSE x \in earlier : \A y \in earlier : y <= x

\* C24: the delivery notes carry pairwise distinct numbers, and the counter
\* of each is one more than the highest counter of the notes created before
\* it on its day, 1 for the first note of a day.
DeliveryNoteNumbering ==
    /\ \A i, j \in DOMAIN delivery_notes :
           delivery_notes[i].delivery_note_number =
           delivery_notes[j].delivery_note_number => i = j
    /\ \A i \in DOMAIN delivery_notes :
           /\ delivery_notes[i].delivery_note_number.prefix = "DN"
           /\ delivery_notes[i].delivery_note_number.seq =
                  HighestEarlierCounter(i) + 1

\* Two delivery notes were created on one day.
DeliveryNoteNumberingWitness ==
    /\ Len(delivery_notes) = 2
    /\ delivery_notes[1].delivery_note_number.day = today
    /\ delivery_notes[2].delivery_note_number = DocumentNumber("DN", today, 2)

\* The moves of the state machine DRAFT -> ISSUED -> DELIVERED -> INVOICED,
\* and the cancellations.
AllowedTransition(status, new_status) ==
    <<status, new_status>> \in
        {<<"DRAFT", "ISSUED">>, <<"ISSUED", "DELIVERED">>,
         <<"DELIVERED", "INVOICED">>, <<"DRAFT", "CANCELLED">>,
         <<"ISSUED", "CANCELLED">>, <<"DELIVERED", "CANCELLED">>}

\* C25: a delivery note changes only by a move of the state machine; every
\* other requested transition leaves it as it was.
StatusStateMachine ==
    [][\A i \in DOMAIN delivery_notes :
           delivery_notes'[i] # delivery_notes[i] =>
               AllowedTransition(delivery_notes[i].status,
                                 delivery_notes'[i].status)]_vars

\* C26: for a note created as DRAFT without an issue date, the move from
\* DRAFT to ISSUED leaves issue_date = today, the move from ISSUED to
\* DELIVERED leaves delivery_date = today, and the issue date that is set at
\* that time is kept.
TransitionDates ==
    [][\A i \in DOMAIN delivery_notes :
           LET dn == delivery_notes[i]
               updated == delivery_notes'[i]
           IN  /\ dn.status = "DRAFT" /\ updated.status = "ISSUED" =>
                      updated.issue_date = today
               /\ dn.status = "ISSUED" /\ updated.status = "DELIVERED" =>
                      /\ updated.delivery_date = today
                      /\ updated.issue_date = dn.issue_date]_vars

\* C27: a delivery note that is created is DRAFT, each of its lines (b, q)
\* has appended a DISPATCH movement of quantity q for b and lowered the
\* quantity_available of b by q, and a request with a line above the
\* quantity_available of its batch is refused.
DispatchAtCreation ==
    [][\A c \in RequestCustomers, ls \in DeliveryRequests :
           CreateDeliveryNote(c, ls, NoDate) =>
               IF \E i \in 1..Len(ls) :
                      /\ ls[i].batch_id \in DOMAIN batches
                      /\ ls[i].quantity > batches[ls[i].batch_id].quantity_available
               THEN ~response'.ok
               ELSE response'.ok =>
                        /\ Last(delivery_notes').status = "DRAFT"
                        /\ \A i \in 1..Len(ls) :
                               /\ \E k \in (Len(movements) + 1)..Len(movements') :
                                      /\ movements'[k].batch_id = ls[i].batch_id
                                      /\ movements'[k].movement_type = "DISPATCH"
                                      /\ movements'[k].quantity = ls[i].quantity
                               /\ batches'[ls[i].batch_id].quantity_available =
                                      batches[ls[i].batch_id].quantity_available
                                      - ls[i].quantity]_vars

\* -------------------------------------------------------- alert properties

\* C28: a run of run_all_checks that follows another run, with no operation
\* and no midnight in between, creates no alert: its four counts are 0.
AlertDeduplication ==
    [][response.op = "run_all_checks" /\ response'.op = "run_all_checks" =>
           /\ response'.expiring_alerts = 0
           /\ response'.expired_batches = 0
           /\ response'.low_stock_alerts = 0
           /\ response'.dead_stock_alerts = 0
           /\ alerts' = alerts]_vars

ExpirationTypes == {"EXPIRATION_WARNING", "EXPIRATION_CRITICAL"}

\* The expiration alerts of one batch, severity and day of creation.
ExpirationAlerts(al, batch_id, severity, day) ==
    CountAlerts(al, LAMBDA a : /\ a.batch_id = batch_id
                               /\ a.alert_type \in ExpirationTypes
                               /\ a.severity = severity
                               /\ a.created_at = day)

\* On every day at most one expiration alert exists per batch and severity.
AtMostOnePerSeverity ==
    \A a \in BagToSet(alerts) :
        a.alert_type \in ExpirationTypes =>
            ExpirationAlerts(alerts, a.batch_id, a.severity, a.created_at) <= 1

\* C29: after the expiring-batches check, each ACTIVE batch with
\* today < expiration_date <= today + band has an alert of today with the
\* severity of the band (30 CRITICAL, 60 WARNING, 90 WARNING, 120 INFO), typed
\* EXPIRATION_CRITICAL when at most 30 days are left and EXPIRATION_WARNING
\* otherwise; and on every day at most one expiration alert exists per batch
\* and severity.
ExpiringBandsAlerted ==
    [][/\ AtMostOnePerSeverity'
       /\ CheckExpiringBatches =>
              \A b \in DOMAIN batches :
                  \A band \in {[days |-> 30, severity |-> "CRITICAL"],
                               [days |-> 60, severity |-> "WARNING"],
                               [days |-> 90, severity |-> "WARNING"],
                               [days |-> 120, severity |-> "INFO"]} :
                      /\ batches[b].status = "ACTIVE"
                      /\ today < batches[b].expiration_date
                      /\ batches[b].expiration_date <= today + band.days
                      => CountAlerts(alerts', LAMBDA a :
                             /\ a.batch_id = b
                             /\ a.severity = band.severity
                             /\ a.created_at = today
                             /\ a.alert_type =
                                    IF batches[b].expiration_date - today <= 30
                                    THEN "EXPIRATION_CRITICAL"
                                    ELSE "EXPIRATION_WARNING") > 0]_vars

\* The EXPIRED / CRITICAL alerts of a batch.
ExpiredAlerts(al, batch_id) ==
    CountAlerts(al, LAMBDA a : /\ a.batch_id = batch_id
                               /\ a.alert_type = "EXPIRED"
                               /\ a.severity = "CRITICAL")

\* C30: the expired-batches check marks each ACTIVE batch with
\* expiration_date < today SCRAP, appends a note to it and creates one
\* EXPIRED / CRITICAL alert for it, leaving its quantities and version as they
\* were; every other batch, the other alerts and the movements are untouched.
ExpiredCheckFrame ==
    [][CheckExpiredBatches =>
           /\ movements' = movements
           /\ DOMAIN batches' = DOMAIN batches
           /\ BagCardinality(alerts') = BagCardinality(alerts) +
                  Cardinality({b \in DOMAIN batches :
                                  /\ batches[b].status = "ACTIVE"
                                  /\ batches[b].expiration_date < today})
           /\ \A b \in DOMAIN batches :
                  IF batches[b].status = "ACTIVE" /\ batches[b].expiration_date < today
                  THEN /\ batches'[b].status = "SCRAP"
                       /\ Len(batches'[b].notes) = Len(batches[b].notes) + 1
                       /\ SubSeq(batches'[b].notes, 1, Len(batches[b].notes)) = batches[b].notes
                       /\ ExpiredAlerts(alerts', b) = ExpiredAlerts(alerts, b) + 1
                       /\ batches'[b].quantity_available = batches[b].quantity_available
                       /\ batches'[b].quantity_received = batches[b].quantity_received
                       /\ batches'[b].version = batches[b].version
                  ELSE /\ batches'[b] = batches[b]
                       /\ ExpiredAlerts(alerts', b) = ExpiredAlerts(alerts, b)]_vars

\* The check has scrapped an expired batch with stock and left alone a batch
\* that expires today and a batch that was not ACTIVE.
ExpiredCheckFrameWitness ==
    /\ response.op = "check_expired"
    /\ \E b, c \in DOMAIN batches :
           /\ batches[b].status = "SCRAP"
           /\ batches[b].notes # <<>>
           /\ batches[b].quantity_available > 0
           /\ ExpiredAlerts(alerts, b) = 1
           /\ batches[c].status = "ACTIVE"
           /\ batches[c].expiration_date = today
           /\ ExpiredAlerts(alerts, c) = 0
\* Helper: the alerts of the given type about an item in the table al.
ItemAlerts(al, alert_type, item_id) ==
    CountAlerts(al, LAMBDA a : a.alert_type = alert_type /\ a.item_id = item_id)

\* Helper: the quantity_available of the ACTIVE batches of an item, among
\* the first n batches, that have not expired.
RECURSIVE UnexpiredStock(_, _)
UnexpiredStock(item_id, n) ==
    IF n = 0 THEN 0
    ELSE UnexpiredStock(item_id, n - 1) +
         (IF /\ n \in DOMAIN batches
             /\ batches[n].item_id = item_id
             /\ batches[n].status = "ACTIVE"
             /\ batches[n].expiration_date >= today
          THEN batches[n].quantity_available ELSE 0)

\* Helper: the alerts of the table al about an item with the given type,
\* severity and day of creation.
LowStockAlerts(al, item_id, severity, day) ==
    CountAlerts(al, LAMBDA a : /\ a.alert_type = "LOW_STOCK"
                               /\ a.item_id = item_id
                               /\ a.severity = severity
                               /\ a.created_at = day)

\* C31: a run of the low-stock check adds one LOW_STOCK alert for an item
\* exactly when the stock of its ACTIVE, unexpired batches is below the
\* reorder point and the item has no LOW_STOCK alert of today; the alert is
\* CRITICAL when the stock is below min_stock and WARNING otherwise; the run
\* adds nothing else.
LowStockCheck ==
    [][CheckLowStock =>
          \A i \in items :
              LET available == UnexpiredStock(i, MaxBatches)
                  alerted == \E sev \in AlertSeverity :
                                 LowStockAlerts(alerts, i, sev, today) > 0
                  due == available < ReorderPoint /\ ~alerted
                  severity == IF available < MinStock THEN "CRITICAL" ELSE "WARNING"
              IN  /\ ItemAlerts(alerts', "LOW_STOCK", i) =
                         ItemAlerts(alerts, "LOW_STOCK", i) + (IF due THEN 1 ELSE 0)
                  /\ due => LowStockAlerts(alerts', i, severity, today) = 1
                  /\ BagCardinality(alerts') - BagCardinality(alerts) =
                         Cardinality({j \in items :
                             ItemAlerts(alerts', "LOW_STOCK", j) >
                             ItemAlerts(alerts, "LOW_STOCK", j)})
                  /\ batches' = batches /\ movements' = movements]_vars

\* C31 witness: a CRITICAL alert of the first day and, after stock came in,
\* a WARNING alert added by the run of the next day; a rerun adds nothing.
LowStockCheckWitness ==
    /\ today = 1
    /\ response.op = "check_low_stock"
    /\ response.low_stock_alerts = 0
    /\ LowStockAlerts(alerts, "ink", "CRITICAL", 0) = 1
    /\ LowStockAlerts(alerts, "ink", "WARNING", 1) = 1
    /\ UnexpiredStock("ink", MaxBatches) = 1

\* Helper: the days of the movements of the ACTIVE batches of an item.
MovementDays(item_id) ==
    {movements[k].timestamp : k \in {j \in DOMAIN movements :
        \E b \in DOMAIN batches : /\ movements[j].batch_id = b
                                   /\ batches[b].item_id = item_id
                                   /\ batches[b].status = "ACTIVE"}}

\* Helper: the DEAD_STOCK alerts of the table al about an item created on
\* the days from..to.
DeadStockAlerts(al, item_id, from, to) ==
    CountAlerts(al, LAMBDA a : /\ a.alert_type = "DEAD_STOCK"
                               /\ a.item_id = item_id
                               /\ a.created_at >= from
                               /\ a.created_at <= to)

\* C32: a run of the dead-stock check adds one DEAD_STOCK alert of severity
\* WARNING for an item exactly when its ACTIVE batches have movements, the
\* latest of them is earlier than today - dead_stock_days, and no DEAD_STOCK
\* alert of the item was created in the last 7 days; so every 7-day window
\* holds at most one DEAD_STOCK alert of an item.
DeadStockCheck ==
    [][/\ CheckDeadStock =>
              \A i \in items :
                  LET days == MovementDays(i)
                      due == /\ days # {}
                             /\ \E last \in days :
                                    /\ \A d \in days : d <= last
                                    /\ last < today - dead_stock_days
                             /\ DeadStockAlerts(alerts, i, today - 7, today) = 0
                  IN  /\ ItemAlerts(alerts', "DEAD_STOCK", i) =
                             ItemAlerts(alerts, "DEAD_STOCK", i) +
                             (IF due THEN 1 ELSE 0)
                      /\ due => CountAlerts(alerts', LAMBDA a :
                                    /\ a.alert_type = "DEAD_STOCK"
                                    /\ a.severity = "WARNING"
                                    /\ a.item_id = i
                                    /\ a.created_at = today) = 1
                      /\ BagCardinality(alerts') - BagCardinality(alerts) =
                             ItemAlerts(alerts', "DEAD_STOCK", i) -
                             ItemAlerts(alerts, "DEAD_STOCK", i)
       /\ \A i \in ItemIds, d \in 0..(dead_stock_days + 9) :
              DeadStockAlerts(alerts', i, d, d + 6) <= 1]_vars

\* C32 witness: a second DEAD_STOCK alert of the item, created once the week
\* of the first has passed, after a run within that week added none.
DeadStockCheckWitness ==
    /\ response.op = "check_dead_stock"
    /\ response.dead_stock_alerts = 1
    /\ today = dead_stock_days + 9
    /\ DeadStockAlerts(alerts, "ink", dead_stock_days + 1, dead_stock_days + 1) = 1
    /\ DeadStockAlerts(alerts, "ink", today, today) = 1

\* C33: a check that raises during a run of the alert checks does not undo
\* the other checks of that run: the batches the expired check marked are
\* SCRAP after the run, and the alerts of the expiring check are in the
\* table when it is not the one that raised.
RunFailureIsolated ==
    [][(RunAllChecks /\ ~response'.ok) =>
          /\ \A b \in ExpiredActive : batches'[b].status = "SCRAP"
          /\ response'.failed # "expiring" =>
                 check_expiring_batches(batches, alerts).alerts \sqsubseteq alerts']_vars

\* C37: runs of the alert checks that overlap create no duplicates: the
\* alerts table never holds two alerts of the same type, item, batch and
\* day (and, for the expiration bands, severity).
NoDuplicateAlerts ==
    \A a \in BagToSet(alerts) : CopiesIn(a, alerts) <= 1

\* Helper: the quantity dispatched from batch b by the movements recorded
\* after its receipt.
RECURSIVE DispatchedSum(_)
DispatchedSum(ms) ==
    IF ms = <<>> THEN 0
    ELSE (IF Head(ms).movement_type = "DISPATCH" THEN Head(ms).quantity ELSE 0)
         + DispatchedSum(Tail(ms))

\* C34: dispatch requests on one batch are serialized by the row lock.  In
\* every state reached by interleaved dispatch requests, every batch has
\* quantity_available = quantity received - the quantities of its DISPATCH
\* movements, each movement's quantity_before is the quantity_after of the
\* batch's movement before it, and the dispatched total is at most the
\* quantity received.
DispatchSerialized ==
    \A b \in DOMAIN batches :
        LET ms == MovementsOf(movements, b)
        IN  /\ batches[b].quantity_available =
                   batches[b].quantity_received - DispatchedSum(ms)
            /\ \A k \in 2..Len(ms) :
                   ms[k].quantity_before = ms[k - 1].quantity_after
            /\ DispatchedSum(ms) <= batches[b].quantity_received

\* C35: adjust_to reaches its target.  When adjust_quantity, having read the
\* batch, records its adjustment - whatever was committed on the batch in
\* between - the call succeeds, the batch has quantity_available = target,
\* and one ADJUSTMENT movement with quantity_after = target is appended.
AdjustReachesTarget ==
    [][\A r \in Requests :
          (requests[r].pc = "adjust_read" /\ requests'[r].pc = "idle") =>
              LET b == requests[r].batch_id
                  target == requests[r].loaded.quantity_available +
                            requests[r].quantity
              IN  /\ response'.ok
                  /\ batches'[b].quantity_available = target
                  /\ Len(movements') = Len(movements) + 1
                  /\ Last(movements').batch_id = b
                  /\ Last(movements').movement_type = "ADJUSTMENT"
                  /\ Last(movements').quantity_after = target]_vars


\* C36: two dispatches in flight never wait for each other's batch row
\* locks in a cycle (each holding a row the other is about to lock).
NoCyclicLockWait ==
    \A d \in Dispatchers, e \in Dispatchers : ~(WaitsFor(d, e) /\ WaitsFor(e, d))

\* The reference numbers of the movements committed so far.
IssuedReferences == {movements[k].reference_number : k \in DOMAIN movements}

\* C38: the GRN number of a committed goods receipt and the generated DSP
\* reference of a committed dispatch are new: no movement committed before
\* carries the same number.
ReferenceNumbersDistinct ==
    [][/\ (response'.op = "receive_goods" /\ response'.ok /\ movements' # movements)
           => response'.grn_number \notin IssuedReferences
       /\ (response'.op = "create_dispatch" /\ response'.ok /\ movements' # movements)
           => response'.reference_number \notin IssuedReferences]_vars

\* C39: a suggest answer holds no suggestion of warning level "expired", and
\* a validation that accepts a batch with at most CRITICAL_THRESHOLD days
\* left carries an expiration warning for it.
ExpirationFlagged ==
    [][/\ (response' # response /\ response'.op = "suggest")
           => \A k \in DOMAIN response'.suggestions :
                  response'.suggestions[k].warning_level # "expired"
       /\ (/\ response' # response
           /\ response'.op = "validate"
           /\ response'.ok
           /\ batches[response'.batch_id].expiration_date - today <= CRITICAL_THRESHOLD)
           => \E k \in DOMAIN response'.warnings :
                  response'.warnings[k].kind \in {"critical", "warning"}]_vars

\* C40: a run of the daily job leaves no batch both ACTIVE and past its
\* expiration date: every batch that was expired and ACTIVE when the run
\* began has been marked SCRAP by it.
ExpiredScrappedByRun ==
    [][RunAllChecks => ExpiredActive' = {}]_vars

====
